---- MODULE Spec2Model ----
(***************************************************************************)
(* Map-tool interaction lifecycle of the Giswater "flow exit" (button 57)  *)
(* and "flow trace" (button 56) toolbar tools:                             *)
(*   src/core/toolbars/om/btn_flow_exit.py   class GwFlowExitButton        *)
(*   src/core/toolbars/om/btn_flow_trace.py  class GwFlowTraceButton       *)
(* Both derive from GwParentMapTool (core/toolbars/parent_maptool.py),     *)
(* whose source is not part of src/: its constructor defaults, its         *)
(* deactivate(), refresh_map_canvas() and set_action_pan(), the snapping   *)
(* manager, create_body() and controller.get_json() are modelled from the  *)
(* specification text and are marked so where they are defined.            *)
(*                                                                         *)
(* Every handler is an operator from a state record to a state record, so  *)
(* that a handler which calls another one (the pan switch deactivating the *)
(* current tool) is the composition of the two.                            *)
(*                                                                         *)
(* Further down, each with a specification of its own:                     *)
(*   SpecTwin      the two tools side by side on the same events           *)
(*   SpecGo2Epa    src/core/actions/epa/go2epa.py, the go2epa form         *)
(*   SpecSelector  the same file, result_selector_accept                   *)
(*   SpecPlugin    src/giswater.py, the plugin's load and unload           *)
(*   SpecPsector   src/core/actions/plan/psector_duplicate.py              *)
(***************************************************************************)
EXTENDS Integers, Sequences, FiniteSets, TLC

VARIABLES
    snapping_config,    \* host: the project's global snapping configuration
    active_layer,       \* host: iface.activeLayer() / canvas.currentLayer()
    map_tool,           \* host: the canvas' current map tool
    cursor,             \* host: the canvas cursor
    project_layers,     \* host: table names of the layers loaded in the project
    show_help,          \* plugin setting read by the parent constructor
    current_layer,      \* per tool: self.current_layer
    layer_node,         \* per tool: self.layer_node
    checked,            \* per tool: self.action.isChecked()
    vertex_marker,      \* per tool: where self.vertex_marker is shown, or Hidden
    snapped_feat,       \* per tool: self.snapped_feat
    previous_snapping,  \* per tool: configuration kept by store_snapping_options
    snapping_layers,    \* per tool: layers set by set_snapping_layers
    help_shown,         \* per tool: the help message has been shown before
    event,              \* the last event delivered: handler, tool, inputs
    log,                \* calls made and exception raised by the last event
    user_snapping,      \* history: the snapping configuration the user started with
    repeated_activate,  \* history: some activate() came on an already active tool
    last_valid_snap,    \* history, per tool: feature of the latest valid snap
    twin,               \* a flow-trace tool in a host of its own, run side by side
    dlg_go2epa,         \* GwGo2Epa.dlg_go2epa: the widgets of the go2epa form
    user_values,        \* plugin settings written by GwGo2Epa.save_user_values
    platform,           \* sys.platform
    selector_rpt,       \* rows of the four selector_rpt_* tables
    project_type,       \* GwGo2Epa.project_type
    giswater,           \* fields of the Giswater plugin object
    iface,              \* host GUI: what the plugin has registered in it
    dlg_duplicate_psector  \* GwPsectorDuplicate.dlg_duplicate_psector

vars == <<snapping_config, active_layer, map_tool, cursor, project_layers,
          show_help, current_layer, layer_node, checked, vertex_marker,
          snapped_feat, previous_snapping, snapping_layers, help_shown,
          event, log, user_snapping, repeated_activate, last_valid_snap,
          twin, dlg_go2epa, user_values, platform, selector_rpt, project_type,
          giswater, iface, dlg_duplicate_psector>>

\* the variables of the two map tools and their host, event and log apart
tool_vars == <<snapping_config, active_layer, map_tool, cursor, project_layers,
               show_help, current_layer, layer_node, checked, vertex_marker,
               snapped_feat, previous_snapping, snapping_layers, help_shown,
               user_snapping, repeated_activate, last_valid_snap>>

go2epa_vars == <<dlg_go2epa, user_values, platform>>

selector_vars == <<selector_rpt, project_type>>

plugin_vars == <<giswater, iface>>

\* everything that is not a map tool, its host or its side-by-side twin
form_vars == <<dlg_go2epa, user_values, platform, selector_rpt, project_type,
               giswater, iface, dlg_duplicate_psector>>

----------------------------------------------------------------------------
(* Bounds and value sets *)

\* number of distinct node features the pointer can snap to
NumNodes == 2

\* node_id attribute values: "N123", "N124", ...
NodeId(i) == "N" \o ToString(122 + i)

NodeIds == {NodeId(i) : i \in 1..NumNodes}

\* Python None where a layer or a call result is expected
None == "None"

\* Python None where a feature or a snapping configuration is expected
Null == [null |-> TRUE]

Hidden == "hidden"

FlowExit == "flow_exit"

FlowTrace == "flow_trace"

Tools == {FlowExit, FlowTrace}

PanTool == "pan"

LeftButton == "LeftButton"

RightButton == "RightButton"

Buttons == {LeftButton, RightButton}

NodeTable == "v_edit_node"

ArcTable == "v_edit_arc"

\* a snapped feature, carrying the one attribute the handlers read
Feature(id) == [node_id |-> id]

Features == {Feature(id) : id \in NodeIds}

\* global snapping configurations a user can have
SnapConfigs == [enabled : BOOLEAN, target : {ArcTable, NodeTable}]

\* what the backend answers to a function call
Responses == {"ok", "empty", "malformed", "error"}

\* the parsed JSON object handed back for an "ok" answer
ParsedResult == "{\"status\":\"Accepted\"}"

\* one call made by a handler: what was called, its argument, the body involved
Entry(op, arg, body) == [op |-> op, arg |-> arg, body |-> body]

----------------------------------------------------------------------------
(* The state as one record, and back *)

State ==
    [snapping_config |-> snapping_config, active_layer |-> active_layer,
     map_tool |-> map_tool, cursor |-> cursor, project_layers |-> project_layers,
     show_help |-> show_help, current_layer |-> current_layer,
     layer_node |-> layer_node, checked |-> checked,
     vertex_marker |-> vertex_marker, snapped_feat |-> snapped_feat,
     previous_snapping |-> previous_snapping,
     snapping_layers |-> snapping_layers, help_shown |-> help_shown,
     log |-> <<>>]

Commit(s) ==
    /\ snapping_config' = s.snapping_config
    /\ active_layer' = s.active_layer
    /\ map_tool' = s.map_tool
    /\ cursor' = s.cursor
    /\ project_layers' = s.project_layers
    /\ show_help' = s.show_help
    /\ current_layer' = s.current_layer
    /\ layer_node' = s.layer_node
    /\ checked' = s.checked
    /\ vertex_marker' = s.vertex_marker
    /\ snapped_feat' = s.snapped_feat
    /\ previous_snapping' = s.previous_snapping
    /\ snapping_layers' = s.snapping_layers
    /\ help_shown' = s.help_shown
    /\ log' = s.log

Logged(s, op, arg, body) == [s EXCEPT !.log = Append(@, Entry(op, arg, body))]

\* an uncaught Python exception: the handler stops where it is
Raise(s, exc) == Logged(s, "raise", exc, "")

----------------------------------------------------------------------------
(* Host and parent-class services used by the two tools *)

\* controller.get_layer_by_tablename: the loaded layer of that table, or None
get_layer_by_tablename(s, tablename) ==
    IF tablename \in s.project_layers THEN tablename ELSE None

\* iface.setActiveLayer: the host ignores a null layer
setActiveLayer(s, layer) ==
    IF layer = None THEN s ELSE [s EXCEPT !.active_layer = layer]

\* snapping manager: remember the layers snapping works on
set_snapping_layers(self, s) ==
    [s EXCEPT !.snapping_layers[self] = s.project_layers \cap {ArcTable, NodeTable}]

\* snapping manager: keep the user's snapping configuration
store_snapping_options(self, s) ==
    [s EXCEPT !.previous_snapping[self] = s.snapping_config]

\* snapping manager: turn snapping on
enable_snapping(s) == [s EXCEPT !.snapping_config.enabled = TRUE]

\* snapping manager: snap to the node layer
snap_to_node(s) == [s EXCEPT !.snapping_config.target = NodeTable]

\* snapping manager: put the kept configuration back, when there is one
recover_snapping_options(self, s) ==
    IF s.previous_snapping[self] = Null
    THEN s
    ELSE [s EXCEPT !.snapping_config = s.previous_snapping[self]]

\* snapping manager: a snap result is valid when it matched a feature
result_is_valid(result) == result # Null

\* snapping manager: the feature a valid snap result matched
get_snapped_feature(result) == result

\* snapping manager: show the marker at the snapped feature
add_marker(self, s, result) == [s EXCEPT !.vertex_marker[self] = result.node_id]

\* QgsFeature.attribute
attribute(feat, name) == feat.node_id

\* giswater_tools.create_body(feature=...): the JSON object around the payload
create_body(feature) == "{" \o feature \o "}"

\* a get_json that hands back the backend's error report as its result
Faulty_get_json_error_returned(function_name, body, response) ==
    IF response = "ok"
    THEN ParsedResult
    ELSE IF response = "error" THEN "{\"status\":\"Failed\"}" ELSE None

\* controller.get_json: the parsed answer, or None when the call failed
get_json(function_name, body, response) ==
    IF response = "ok" THEN ParsedResult ELSE None

\* Python truth value of a get_json result
Truthy(result) == result # None

\* GwParentMapTool.deactivate: uncheck the button, restore the user's
\* snapping configuration, release the marker
GwParentMapTool_deactivate(self, s) ==
    LET s1 == [s EXCEPT !.checked[self] = FALSE]
        s2 == recover_snapping_options(self, s1)
    IN  [s2 EXCEPT !.vertex_marker[self] = Hidden]

\* a deactivate that flips the button instead of unchecking it
Faulty_deactivate_toggle(self, s) ==
    LET s1 == GwParentMapTool_deactivate(self, s)
    IN  [s1 EXCEPT !.checked[self] = ~s.checked[self]]

\* a deactivate that does not call the parent's
Faulty_deactivate_no_super(self, s) == s

\* GwFlowExitButton.deactivate: the parent's deactivate
GwFlowExitButton_deactivate(self, s) == GwParentMapTool_deactivate(self, s)

\* GwFlowTraceButton.deactivate: the parent's deactivate
GwFlowTraceButton_deactivate(self, s) == GwParentMapTool_deactivate(self, s)

\* GwParentMapTool.refresh_map_canvas
refresh_map_canvas(s) == Logged(s, "refresh_map_canvas", "", "")

\* GwParentMapTool.set_action_pan: the host makes pan the canvas' map tool,
\* which deactivates the map tool that was current
set_action_pan(s) ==
    LET s1 == Logged(s, "set_action_pan", "", "")
        s2 == IF s1.map_tool = FlowExit
              THEN GwFlowExitButton_deactivate(FlowExit, s1)
              ELSE IF s1.map_tool = FlowTrace
                   THEN GwFlowTraceButton_deactivate(FlowTrace, s1)
                   ELSE s1
    IN  [s2 EXCEPT !.map_tool = PanTool]

----------------------------------------------------------------------------
(* Faulty variants of GwFlowExitButton's handlers, used to test the properties *)

\* canvasReleaseEvent without the early return on a falsy result
Faulty_release_no_return(self, s, button, response) ==
    IF button = LeftButton /\ s.current_layer[self] # None
    THEN IF s.snapped_feat[self] = Null
         THEN Raise(s, "AttributeError")
         ELSE LET function_name == "gw_fct_flow_exit"
                  elem_id == attribute(s.snapped_feat[self], "node_id")
                  feature_id == "\"id\":[\"" \o elem_id \o "\"]"
                  body == create_body(feature_id)
                  s1 == Logged(s, "create_body", feature_id, body)
                  s2 == Logged(s1, "get_json", function_name, body)
              IN  set_action_pan(refresh_map_canvas(s2))
    ELSE s

\* canvasReleaseEvent acting on any button
Faulty_release_any_button(self, s, button, response) ==
    IF s.current_layer[self] # None
    THEN IF s.snapped_feat[self] = Null
         THEN Raise(s, "AttributeError")
         ELSE LET function_name == "gw_fct_flow_exit"
                  elem_id == attribute(s.snapped_feat[self], "node_id")
                  feature_id == "\"id\":[\"" \o elem_id \o "\"]"
                  body == create_body(feature_id)
                  s1 == Logged(s, "create_body", feature_id, body)
                  result == get_json(function_name, body, response)
                  s2 == Logged(s1, "get_json", function_name, body)
              IN  IF ~Truthy(result)
                  THEN s2
                  ELSE set_action_pan(refresh_map_canvas(s2))
    ELSE s

\* canvasReleaseEvent acting without a current layer
Faulty_release_no_layer_check(self, s, button, response) ==
    IF button = LeftButton
    THEN IF s.snapped_feat[self] = Null
         THEN Raise(s, "AttributeError")
         ELSE LET function_name == "gw_fct_flow_exit"
                  elem_id == attribute(s.snapped_feat[self], "node_id")
                  feature_id == "\"id\":[\"" \o elem_id \o "\"]"
                  body == create_body(feature_id)
                  s1 == Logged(s, "create_body", feature_id, body)
                  result == get_json(function_name, body, response)
                  s2 == Logged(s1, "get_json", function_name, body)
              IN  IF ~Truthy(result)
                  THEN s2
                  ELSE set_action_pan(refresh_map_canvas(s2))
    ELSE s

\* canvasReleaseEvent sending the identifier bare, not as a quoted string
Faulty_release_unquoted_id(self, s, button, response) ==
    IF button = LeftButton /\ s.current_layer[self] # None
    THEN IF s.snapped_feat[self] = Null
         THEN Raise(s, "AttributeError")
         ELSE LET function_name == "gw_fct_flow_exit"
                  elem_id == attribute(s.snapped_feat[self], "node_id")
                  feature_id == "\"id\":[" \o elem_id \o "]"
                  body == create_body(feature_id)
                  s1 == Logged(s, "create_body", feature_id, body)
                  result == get_json(function_name, body, response)
                  s2 == Logged(s1, "get_json", function_name, body)
              IN  IF ~Truthy(result)
                  THEN s2
                  ELSE set_action_pan(refresh_map_canvas(s2))
    ELSE s

\* canvasReleaseEvent switching to pan before it refreshes the canvas
Faulty_release_pan_first(self, s, button, response) ==
    IF button = LeftButton /\ s.current_layer[self] # None
    THEN IF s.snapped_feat[self] = Null
         THEN Raise(s, "AttributeError")
         ELSE LET function_name == "gw_fct_flow_exit"
                  elem_id == attribute(s.snapped_feat[self], "node_id")
                  feature_id == "\"id\":[\"" \o elem_id \o "\"]"
                  body == create_body(feature_id)
                  s1 == Logged(s, "create_body", feature_id, body)
                  result == get_json(function_name, body, response)
                  s2 == Logged(s1, "get_json", function_name, body)
              IN  IF ~Truthy(result)
                  THEN s2
                  ELSE refresh_map_canvas(set_action_pan(s2))
    ELSE s

\* activate storing the snapping configuration after it has altered it
Faulty_activate_store_late(self, s) ==
    LET s1 == [s EXCEPT !.layer_node[self] = get_layer_by_tablename(s, NodeTable)]
        s2 == setActiveLayer(s1, s1.layer_node[self])
        s3 == [s2 EXCEPT !.current_layer[self] = s2.layer_node[self]]
        s4 == [s3 EXCEPT !.checked[self] = TRUE]
        s5 == set_snapping_layers(self, s4)
        s6 == enable_snapping(s5)
        s7 == snap_to_node(s6)
        s8 == store_snapping_options(self, s7)
        s9 == [s8 EXCEPT !.cursor = self]
        s10 == IF s9.show_help
               THEN [Logged(s9, "show_info", "",
                       "Select a node and click on it, the downstream nodes are computed")
                       EXCEPT !.help_shown[self] = TRUE]
               ELSE s9
    IN  IF s10.active_layer = None
        THEN LET layer == get_layer_by_tablename(s10, NodeTable)
             IN  IF layer # None THEN setActiveLayer(s10, layer) ELSE s10
        ELSE s10

\* activate leaving the host's active layer alone when there is one
Faulty_activate_keep_active_layer(self, s) ==
    LET s1 == [s EXCEPT !.layer_node[self] = get_layer_by_tablename(s, NodeTable)]
        s2 == s1
        s3 == [s2 EXCEPT !.current_layer[self] = s2.layer_node[self]]
        s4 == [s3 EXCEPT !.checked[self] = TRUE]
        s5 == set_snapping_layers(self, s4)
        s6 == store_snapping_options(self, s5)
        s7 == enable_snapping(s6)
        s8 == snap_to_node(s7)
        s9 == [s8 EXCEPT !.cursor = self]
        s10 == IF s9.show_help
               THEN [Logged(s9, "show_info", "",
                       "Select a node and click on it, the downstream nodes are computed")
                       EXCEPT !.help_shown[self] = TRUE]
               ELSE s9
    IN  IF s10.active_layer = None
        THEN LET layer == get_layer_by_tablename(s10, NodeTable)
             IN  IF layer # None THEN setActiveLayer(s10, layer) ELSE s10
        ELSE s10

\* activate that does not check the toolbar button
Faulty_activate_no_check(self, s) ==
    LET s1 == [s EXCEPT !.layer_node[self] = get_layer_by_tablename(s, NodeTable)]
        s2 == setActiveLayer(s1, s1.layer_node[self])
        s3 == [s2 EXCEPT !.current_layer[self] = s2.layer_node[self]]
        s4 == s3
        s5 == set_snapping_layers(self, s4)
        s6 == store_snapping_options(self, s5)
        s7 == enable_snapping(s6)
        s8 == snap_to_node(s7)
        s9 == [s8 EXCEPT !.cursor = self]
        s10 == IF s9.show_help
               THEN [Logged(s9, "show_info", "",
                       "Select a node and click on it, the downstream nodes are computed")
                       EXCEPT !.help_shown[self] = TRUE]
               ELSE s9
    IN  IF s10.active_layer = None
        THEN LET layer == get_layer_by_tablename(s10, NodeTable)
             IN  IF layer # None THEN setActiveLayer(s10, layer) ELSE s10
        ELSE s10

\* activate showing the help message on the tool's first activation only
Faulty_activate_help_once(self, s) ==
    LET s1 == [s EXCEPT !.layer_node[self] = get_layer_by_tablename(s, NodeTable)]
        s2 == setActiveLayer(s1, s1.layer_node[self])
        s3 == [s2 EXCEPT !.current_layer[self] = s2.layer_node[self]]
        s4 == [s3 EXCEPT !.checked[self] = TRUE]
        s5 == set_snapping_layers(self, s4)
        s6 == store_snapping_options(self, s5)
        s7 == enable_snapping(s6)
        s8 == snap_to_node(s7)
        s9 == [s8 EXCEPT !.cursor = self]
        s10 == IF s9.show_help /\ ~s9.help_shown[self]
               THEN [Logged(s9, "show_info", "",
                       "Select a node and click on it, the downstream nodes are computed")
                       EXCEPT !.help_shown[self] = TRUE]
               ELSE s9
    IN  IF s10.active_layer = None
        THEN LET layer == get_layer_by_tablename(s10, NodeTable)
             IN  IF layer # None THEN setActiveLayer(s10, layer) ELSE s10
        ELSE s10

\* canvasReleaseEvent asking the backend again after a falsy result
Faulty_release_retry(self, s, button, response) ==
    IF button = LeftButton /\ s.current_layer[self] # None
    THEN IF s.snapped_feat[self] = Null
         THEN Raise(s, "AttributeError")
         ELSE LET function_name == "gw_fct_flow_exit"
                  elem_id == attribute(s.snapped_feat[self], "node_id")
                  feature_id == "\"id\":[\"" \o elem_id \o "\"]"
                  body == create_body(feature_id)
                  s1 == Logged(s, "create_body", feature_id, body)
                  result == get_json(function_name, body, response)
                  s2 == Logged(s1, "get_json", function_name, body)
              IN  IF ~Truthy(result)
                  THEN Logged(s2, "get_json", function_name, body)
                  ELSE set_action_pan(refresh_map_canvas(s2))
    ELSE s

\* canvasMoveEvent asking the backend about the feature it snapped to
Faulty_move_calls_backend(self, s, snap) ==
    LET s1 == [s EXCEPT !.vertex_marker[self] = Hidden]
        result == snap
    IN  IF result_is_valid(result)
        THEN LET s2 == add_marker(self, s1, result)
                 s3 == [s2 EXCEPT !.snapped_feat[self] = get_snapped_feature(result)]
             IN  Logged(s3, "get_json", "gw_fct_flow_exit", "")
        ELSE s1

\* canvasMoveEvent keeping the first feature it ever snapped to
Faulty_move_keep_first(self, s, snap) ==
    LET s1 == [s EXCEPT !.vertex_marker[self] = Hidden]
        result == snap
    IN  IF result_is_valid(result)
        THEN LET s2 == add_marker(self, s1, result)
             IN  IF s2.snapped_feat[self] = Null
                 THEN [s2 EXCEPT !.snapped_feat[self] = get_snapped_feature(result)]
                 ELSE s2
        ELSE s1

\* a flow-trace canvasMoveEvent that leaves the marker where it was shown
Faulty_trace_move_keeps_marker(self, s, snap) ==
    LET s1 == s
        result == snap
    IN  IF result_is_valid(result)
        THEN LET s2 == add_marker(self, s1, result)
             IN  [s2 EXCEPT !.snapped_feat[self] = get_snapped_feature(result)]
        ELSE s1

----------------------------------------------------------------------------
(* class GwFlowExitButton *)

GwFlowExitButton_canvasMoveEvent(self, s, snap) ==
    LET s1 == [s EXCEPT !.vertex_marker[self] = Hidden]
        result == snap
    IN  IF result_is_valid(result)
        THEN LET s2 == add_marker(self, s1, result)
             IN  [s2 EXCEPT !.snapped_feat[self] = get_snapped_feature(result)]
        ELSE s1

GwFlowExitButton_canvasReleaseEvent(self, s, button, response) ==
    IF button = LeftButton /\ s.current_layer[self] # None
    THEN IF s.snapped_feat[self] = Null
         THEN Raise(s, "AttributeError")
         ELSE LET function_name == "gw_fct_flow_exit"
                  elem_id == attribute(s.snapped_feat[self], "node_id")
                  feature_id == "\"id\":[\"" \o elem_id \o "\"]"
                  body == create_body(feature_id)
                  s1 == Logged(s, "create_body", feature_id, body)
                  result == get_json(function_name, body, response)
                  s2 == Logged(s1, "get_json", function_name, body)
              IN  IF ~Truthy(result)
                  THEN s2
                  ELSE set_action_pan(refresh_map_canvas(s2))
    ELSE s

GwFlowExitButton_activate(self, s) ==
    LET s1 == [s EXCEPT !.layer_node[self] = get_layer_by_tablename(s, NodeTable)]
        s2 == setActiveLayer(s1, s1.layer_node[self])
        s3 == [s2 EXCEPT !.current_layer[self] = s2.layer_node[self]]
        s4 == [s3 EXCEPT !.checked[self] = TRUE]
        s5 == set_snapping_layers(self, s4)
        s6 == store_snapping_options(self, s5)
        s7 == enable_snapping(s6)
        s8 == snap_to_node(s7)
        s9 == [s8 EXCEPT !.cursor = self]
        s10 == IF s9.show_help
               THEN [Logged(s9, "show_info", "",
                       "Select a node and click on it, the downstream nodes are computed")
                       EXCEPT !.help_shown[self] = TRUE]
               ELSE s9
    IN  IF s10.active_layer = None
        THEN LET layer == get_layer_by_tablename(s10, NodeTable)
             IN  IF layer # None THEN setActiveLayer(s10, layer) ELSE s10
        ELSE s10

----------------------------------------------------------------------------
(* class GwFlowTraceButton *)

GwFlowTraceButton_canvasMoveEvent(self, s, snap) ==
    LET s1 == [s EXCEPT !.vertex_marker[self] = Hidden]
        result == snap
    IN  IF result_is_valid(result)
        THEN LET s2 == add_marker(self, s1, result)
             IN  [s2 EXCEPT !.snapped_feat[self] = get_snapped_feature(result)]
        ELSE s1

GwFlowTraceButton_canvasReleaseEvent(self, s, button, response) ==
    IF button = LeftButton /\ s.current_layer[self] # None
    THEN IF s.snapped_feat[self] = Null
         THEN Raise(s, "AttributeError")
         ELSE LET function_name == "gw_fct_flow_trace"
                  elem_id == attribute(s.snapped_feat[self], "node_id")
                  feature_id == "\"id\":[\"" \o elem_id \o "\"]"
                  body == create_body(feature_id)
                  s1 == Logged(s, "create_body", feature_id, body)
                  result == get_json(function_name, body, response)
                  s2 == Logged(s1, "get_json", function_name, body)
              IN  IF ~Truthy(result)
                  THEN s2
                  ELSE set_action_pan(refresh_map_canvas(s2))
    ELSE s

GwFlowTraceButton_activate(self, s) ==
    LET s1 == [s EXCEPT !.layer_node[self] = get_layer_by_tablename(s, NodeTable)]
        s2 == setActiveLayer(s1, s1.layer_node[self])
        s3 == [s2 EXCEPT !.current_layer[self] = s2.layer_node[self]]
        s4 == [s3 EXCEPT !.checked[self] = TRUE]
        s5 == set_snapping_layers(self, s4)
        s6 == store_snapping_options(self, s5)
        s7 == enable_snapping(s6)
        s8 == snap_to_node(s7)
        s9 == [s8 EXCEPT !.cursor = self]
        s10 == IF s9.show_help
               THEN [Logged(s9, "show_info", "",
                       "Select a node and click on it, the upstream nodes are computed")
                       EXCEPT !.help_shown[self] = TRUE]
               ELSE s9
    IN  IF s10.active_layer = None
        THEN LET layer == get_layer_by_tablename(s10, NodeTable)
             IN  IF layer # None THEN setActiveLayer(s10, layer) ELSE s10
        ELSE s10

----------------------------------------------------------------------------
(* Method dispatch on the tool's class *)

canvasMoveEvent(self, s, snap) ==
    IF self = FlowExit
    THEN GwFlowExitButton_canvasMoveEvent(self, s, snap)
    ELSE GwFlowTraceButton_canvasMoveEvent(self, s, snap)

canvasReleaseEvent(self, s, button, response) ==
    IF self = FlowExit
    THEN GwFlowExitButton_canvasReleaseEvent(self, s, button, response)
    ELSE GwFlowTraceButton_canvasReleaseEvent(self, s, button, response)

activate(self, s) ==
    IF self = FlowExit
    THEN GwFlowExitButton_activate(self, s)
    ELSE GwFlowTraceButton_activate(self, s)

deactivate(self, s) ==
    IF self = FlowExit
    THEN GwFlowExitButton_deactivate(self, s)
    ELSE GwFlowTraceButton_deactivate(self, s)

----------------------------------------------------------------------------
(* Events *)

NoInput == "-"

\* what get_json returned to the last handler, if the handler called it
CallResult(s, response) ==
    LET calls == {i \in 1..Len(s.log) : s.log[i].op = "get_json"}
    IN  IF calls = {}
        THEN NoInput
        ELSE LET i == CHOOSE i \in calls : TRUE
             IN  get_json(s.log[i].arg, s.log[i].body, response)

\* the backend's answer to the last handler, if the handler asked
CallResponse(s, response) ==
    IF \E i \in 1..Len(s.log) : s.log[i].op = "get_json"
    THEN response
    ELSE NoInput

\* The event now delivered. For a deactivate(), prev_op, entry and snap tell
\* what came just before on the same tool: the handler of that event, the
\* snapping configuration an activate() started from, the snap of a move.
Event(op, self, button, snap, response, result) ==
    [op |-> op, self |-> self, button |-> button,
     snap |-> IF op = "deactivate" /\ event.self = self /\ event.op = "move"
              THEN event.snap ELSE snap,
     response |-> response,
     result |-> result,
     prev_op |-> IF op = "deactivate" /\ event.self = self
                 THEN event.op ELSE NoInput,
     entry |-> IF op = "deactivate" /\ event.self = self /\ event.op = "activate"
               THEN event.entry ELSE Null]

\* The host makes the tool the canvas' map tool: it deactivates another tool
\* that was current, then calls activate()
Activate(self) ==
    LET s0 == IF map_tool \in Tools \ {self} THEN deactivate(map_tool, State) ELSE State
        s1 == activate(self, s0)
    IN  /\ Commit([s1 EXCEPT !.map_tool = self])
        /\ event' = [Event("activate", self, NoInput, Null, NoInput, NoInput)
                        EXCEPT !.entry = s0.snapping_config]
        /\ repeated_activate' = (repeated_activate \/ map_tool = self)
        /\ UNCHANGED <<user_snapping, last_valid_snap>>

\* The host takes the map tool off the canvas and calls deactivate()
Deactivate(self) ==
    LET s1 == deactivate(self, State)
    IN  /\ Commit([s1 EXCEPT !.map_tool = IF @ = self THEN PanTool ELSE @])
        /\ event' = Event("deactivate", self, NoInput, Null, NoInput, NoInput)
        /\ UNCHANGED <<user_snapping, repeated_activate, last_valid_snap>>

\* The pointer moves over the canvas; snap is what snap_to_current_layer finds
Move(self, snap) ==
    /\ Commit(canvasMoveEvent(self, State, snap))
    /\ event' = Event("move", self, NoInput, snap, NoInput, NoInput)
    /\ last_valid_snap' = IF snap # Null
                          THEN [last_valid_snap EXCEPT ![self] = snap]
                          ELSE last_valid_snap
    /\ UNCHANGED <<user_snapping, repeated_activate>>

\* A pointer button is released; response is the backend's answer if asked
Release(self, button, response) ==
    LET s1 == canvasReleaseEvent(self, State, button, response)
    IN  /\ Commit(s1)
        /\ event' = Event("release", self, button, Null,
                          CallResponse(s1, response), CallResult(s1, response))
        /\ UNCHANGED <<user_snapping, repeated_activate, last_valid_snap>>

MapToolInit ==
    /\ snapping_config \in SnapConfigs
    /\ project_layers \in {{ArcTable}, {ArcTable, NodeTable}}
    /\ active_layer \in {None, ArcTable}
    /\ map_tool = PanTool
    /\ cursor = "std"
    /\ show_help \in BOOLEAN
    /\ current_layer = [t \in Tools |-> None]
    /\ layer_node = [t \in Tools |-> None]
    /\ checked = [t \in Tools |-> FALSE]
    /\ vertex_marker = [t \in Tools |-> Hidden]
    /\ snapped_feat = [t \in Tools |-> Null]
    /\ previous_snapping = [t \in Tools |-> Null]
    /\ snapping_layers = [t \in Tools |-> {}]
    /\ help_shown = [t \in Tools |-> FALSE]
    /\ event = [op |-> "init", self |-> NoInput, button |-> NoInput,
                snap |-> Null, response |-> NoInput, result |-> NoInput,
                prev_op |-> NoInput, entry |-> Null]
    /\ log = <<>>
    /\ user_snapping = snapping_config
    /\ repeated_activate = FALSE
    /\ last_valid_snap = [t \in Tools |-> Null]

\* the forms and the plugin object are not yet created
FormsNotCreated ==
    /\ dlg_go2epa = Null
    /\ user_values = Null
    /\ platform = "win32"
    /\ selector_rpt = Null
    /\ project_type = "ws"
    /\ giswater = Null
    /\ iface = Null
    /\ dlg_duplicate_psector = Null

Init ==
    /\ MapToolInit
    /\ twin = Null
    /\ FormsNotCreated

Next ==
    \/ \E self \in Tools : Activate(self) /\ UNCHANGED <<twin, form_vars>>
    \/ \E self \in Tools : Deactivate(self) /\ UNCHANGED <<twin, form_vars>>
    \/ \E self \in Tools, snap \in Features \cup {Null} :
          Move(self, snap) /\ UNCHANGED <<twin, form_vars>>
    \/ \E self \in Tools, button \in Buttons, response \in Responses :
          Release(self, button, response) /\ UNCHANGED <<twin, form_vars>>

Spec == Init /\ [][Next]_vars

----------------------------------------------------------------------------
(* Properties *)

\* the last handler made a call of that kind
Called(l, op) == \E i \in 1..Len(l) : l[i].op = op

\* how many calls of that kind the last handler made
Count(l, op) == Cardinality({i \in 1..Len(l) : l[i].op = op})

\* the step changes nothing of the host or of either tool
ProgramUnchanged ==
    UNCHANGED <<snapping_config, active_layer, map_tool, cursor, project_layers,
                show_help, current_layer, layer_node, checked, vertex_marker,
                snapped_feat, previous_snapping, snapping_layers, help_shown>>

\* QgsMapTool.isActive: the tool is the canvas' current map tool
Active(self) == map_tool = self

\* C1 (as claimed): a pointer release on a tool with no valid snapped feature
\* cached (none ever cached, or the last move left no marker) is a silent
\* no-op: nothing is called, nothing is raised, nothing changes.
C1_SnaplessReleaseIsNoOp ==
    [][\A t \in Tools :
          (event'.op = "release" /\ event'.self = t
             /\ (snapped_feat[t] = Null \/ vertex_marker[t] = Hidden))
          => (log' = <<>> /\ ProgramUnchanged)]_vars

\* C2 (as claimed): after every pointer move whose snap is not valid, no
\* marker is shown and the cached snapped feature is cleared.
C2_InvalidMoveClearsFeature ==
    (event.op = "move" /\ event.snap = Null)
    => (vertex_marker[event.self] = Hidden /\ snapped_feat[event.self] = Null)

\* C3: when the remote call of a pointer release returns a falsy result, the
\* canvas is not refreshed, the tool is not switched to pan, and the state of
\* the host and of the tools is what it was before the event.
C3_FalsyResultChangesNothing ==
    [][(event'.op = "release" /\ event'.result = None)
       => (/\ ~Called(log', "refresh_map_canvas")
           /\ ~Called(log', "set_action_pan")
           /\ ProgramUnchanged)]_vars

\* C3 witness: a release on the active tool whose remote call came back falsy
C3_Witness ==
    /\ event.op = "release" /\ event.result = None
    /\ Called(log, "get_json") /\ Active(event.self)

\* C4: a pointer release with a button other than the left one builds no
\* request body and makes no remote call, in any tool state.
C4_OtherButtonNoCall ==
    (event.op = "release" /\ event.button # LeftButton)
    => (~Called(log, "create_body") /\ ~Called(log, "get_json"))

\* C4 witness: a right-button release on an active tool that has a current
\* layer and a snapped feature, so that only the button stops the call
C4_Witness ==
    /\ event.op = "release" /\ event.button = RightButton
    /\ Active(event.self)
    /\ current_layer[event.self] # None
    /\ snapped_feat[event.self] # Null

\* C5: activate() followed immediately by deactivate() of the same tool leaves
\* the host's snapping configuration equal to its value on entry to activate().
C5_ActivateDeactivateRestoresSnapping ==
    (event.op = "deactivate" /\ event.prev_op = "activate")
    => snapping_config = event.entry

\* C5 witness: deactivate() right after an activate() that had altered the
\* user's snapping configuration
C5_Witness ==
    /\ event.op = "deactivate" /\ event.prev_op = "activate"
    /\ event.entry # Null
    /\ event.entry # [enabled |-> TRUE, target |-> NodeTable]

\* C6: a second deactivate() right after a first one raises nothing and
\* changes nothing: snapping configuration, button check-state and marker
\* are as the first call left them.
C6_DeactivateTwiceIsIdempotent ==
    [][(event.op = "deactivate" /\ event'.op = "deactivate"
          /\ event'.self = event.self)
       => (/\ ~Called(log', "raise")
           /\ snapping_config' = snapping_config
           /\ checked' = checked
           /\ vertex_marker' = vertex_marker
           /\ previous_snapping' = previous_snapping)]_vars

\* C6 witness: the second of two deactivate() calls in a row, on a tool that
\* had stored a snapping configuration
C6_Witness ==
    /\ event.op = "deactivate" /\ event.prev_op = "deactivate"
    /\ previous_snapping[event.self] # Null

\* the compact JSON text of {"id": [X]} with X a string
JsonIdList(x) == "{" \o "\"id\"" \o ":" \o "[" \o "\"" \o x \o "\"" \o "]" \o "}"

\* C7: the request body built by a release from a snapped feature whose node
\* identifier is X is the JSON object {"id": ["X"]}, a one-element list
\* holding X as a string, and that body is the one sent; for X = "N123" it
\* is {"id":["N123"]}.
C7_BodyCarriesIdList ==
    (event.op = "release" /\ Called(log, "create_body"))
    => LET X == snapped_feat[event.self].node_id
       IN  /\ \A i \in 1..Len(log) :
                 log[i].op \in {"create_body", "get_json"}
                 => log[i].body = JsonIdList(X)
           /\ Count(log, "create_body") = 1
           /\ (X = "N123" =>
                 \E i \in 1..Len(log) :
                    /\ log[i].op = "create_body"
                    /\ log[i].body = "{\"id\":[\"N123\"]}")

\* C7 witness: a release that built a body from the feature N123
C7_Witness ==
    /\ event.op = "release" /\ Called(log, "create_body")
    /\ snapped_feat[event.self] = Feature("N123")

\* C8: when the remote call of a release returns a truthy result, the canvas
\* is refreshed and then the tool is switched to pan, each exactly once.
C8_RefreshThenPan ==
    (event.op = "release" /\ event.result \notin {NoInput, None})
    => /\ Count(log, "refresh_map_canvas") = 1
       /\ Count(log, "set_action_pan") = 1
       /\ \E i, j \in 1..Len(log) :
             /\ i < j
             /\ log[i].op = "refresh_map_canvas"
             /\ log[j].op = "set_action_pan"

\* C8 witness: a release whose remote call returned the parsed result
C8_Witness ==
    /\ event.op = "release" /\ event.result = ParsedResult
    /\ event.button = LeftButton

\* C9: a tool becomes Active only by its activate(); it becomes Inactive only
\* by a deactivate() (its own call, or the host's when another tool is
\* activated) or by a release whose remote call succeeded and switched to
\* pan; moves, ignored releases and releases whose call failed leave it as
\* it was.
C9_ToolStateTransitions ==
    [][\A t \in Tools :
          /\ (~Active(t) /\ Active(t)')
                => (event'.op = "activate" /\ event'.self = t)
          /\ (Active(t) /\ ~Active(t)')
                => \/ (event'.op = "deactivate" /\ event'.self = t)
                   \/ (event'.op = "activate" /\ event'.self # t)
                   \/ (/\ event'.op = "release"
                       /\ event'.result = ParsedResult
                       /\ Called(log', "set_action_pan"))
          /\ (\/ event'.op = "move"
              \/ (event'.op = "release" /\ event'.result # ParsedResult))
                => (Active(t)' = Active(t))]_vars

\* C9 witness: a successful release has just taken its tool from Active to
\* Inactive through the switch to pan
C9_Witness ==
    /\ event.op = "release" /\ Called(log, "set_action_pan")
    /\ map_tool = PanTool
    /\ ~checked[event.self]
    /\ previous_snapping[event.self] # Null

\* C10: a left-button release on a tool that has no current layer builds no
\* request body and makes no remote call.
C10_NoLayerNoCall ==
    (event.op = "release" /\ current_layer[event.self] = None)
    => (~Called(log, "create_body") /\ ~Called(log, "get_json"))

\* C10 witness: a left-button release with a snapped feature cached on a tool
\* that has no current layer
C10_Witness ==
    /\ event.op = "release" /\ event.button = LeftButton
    /\ current_layer[event.self] = None
    /\ snapped_feat[event.self] # Null

\* C11: after deactivate() the toolbar button is unchecked and no snap marker
\* is shown, whatever the last pointer move displayed.
C11_DeactivateUnchecksAndHidesMarker ==
    event.op = "deactivate"
    => (~checked[event.self] /\ vertex_marker[event.self] = Hidden)

\* C11 witness: a deactivate() right after a move that had shown the marker
C11_Witness ==
    /\ event.op = "deactivate" /\ event.prev_op = "move"
    /\ event.snap # Null

\* C12 (as claimed): after activate() the host's active layer and the tool's
\* current layer are both v_edit_node.
C12_ActivateSelectsNodeLayer ==
    event.op = "activate"
    => (active_layer = NodeTable /\ current_layer[event.self] = NodeTable)

\* C12 (amended): after activate() on a project that has the v_edit_node
\* layer loaded, the host's active layer and the tool's current layer are
\* both v_edit_node, whichever layer was active before; on a project without
\* it the tool has no current layer.
C12_ActivateSelectsNodeLayerWhenLoaded ==
    event.op = "activate"
    => IF NodeTable \in project_layers
       THEN active_layer = NodeTable /\ current_layer[event.self] = NodeTable
       ELSE current_layer[event.self] = None /\ active_layer # NodeTable

\* C12 witness: an activate() that made v_edit_node the active and the
\* current layer
C12_Witness ==
    /\ event.op = "activate"
    /\ NodeTable \in project_layers
    /\ active_layer = NodeTable
    /\ current_layer[event.self] = NodeTable

\* C13: the remote function invoker returns None, a falsy value, when the
\* backend returns an empty result set, malformed JSON or an error, and the
\* parsed result otherwise.
C13_InvokerReturnsNoneOnFailure ==
    (event.op = "release" /\ event.response # NoInput)
    => IF event.response \in {"empty", "malformed", "error"}
       THEN event.result = None /\ ~Truthy(event.result)
       ELSE event.result = ParsedResult /\ Truthy(event.result)

\* C13 witness: a release whose remote call met malformed JSON
C13_Witness ==
    /\ event.op = "release" /\ event.response = "malformed"
    /\ event.result = None

\* C14: a pointer release makes at most one remote invocation; a falsy result
\* is not retried.
C14_AtMostOneInvocation ==
    event.op = "release" => Count(log, "get_json") <= 1

\* C14 witness: a release whose single remote call found an empty result set
C14_Witness ==
    /\ event.op = "release" /\ event.response = "empty"
    /\ Count(log, "get_json") = 1

\* C15 (as claimed): once a tool has shown its help message, no later
\* activate() of that tool shows it again.
C15_HelpShownAtMostOnce ==
    [][\A t \in Tools :
          (help_shown[t] /\ event'.op = "activate" /\ event'.self = t)
          => ~Called(log', "show_info")]_vars

\* C15 (amended): with help display enabled every activate() shows the help
\* message exactly once, a repeated activation included; with it disabled,
\* and in every other handler, no message is shown.
C15_HelpShownOnEveryActivate ==
    Count(log, "show_info") = IF event.op = "activate" /\ show_help THEN 1 ELSE 0

\* C15 witness: the help message shown by an activate() that was not the
\* first one of its tool
C15_Witness ==
    /\ event.op = "activate" /\ show_help
    /\ Called(log, "show_info")
    /\ previous_snapping[event.self] = event.entry
    /\ event.entry = [enabled |-> TRUE, target |-> NodeTable]
    /\ user_snapping # event.entry
    /\ repeated_activate

\* C16: a pointer move builds no request body and invokes no remote
\* function, whether or not its snap is valid.
C16_MoveMakesNoCall ==
    event.op = "move"
    => (~Called(log, "create_body") /\ ~Called(log, "get_json"))

\* C16 witness: a move with a valid snap on an active tool with a current layer
C16_Witness ==
    /\ event.op = "move" /\ event.snap # Null
    /\ Active(event.self)
    /\ current_layer[event.self] # None

\* C17 (as claimed): whenever neither tool is active, the host's snapping
\* configuration is the one the user started with.
C17_NoSnappingLeak ==
    (\A t \in Tools : ~Active(t)) => snapping_config = user_snapping

\* C17 (amended): as long as no activate() has come on a tool that was
\* already active, whenever neither tool is active the host's snapping
\* configuration is the one the user started with.
C17_NoSnappingLeakWhenPaired ==
    (~repeated_activate /\ \A t \in Tools : ~Active(t))
    => snapping_config = user_snapping

\* C17 witness: both tools have been activated and left, in pairs, from a
\* user configuration that activation alters
C17_Witness ==
    /\ ~repeated_activate
    /\ \A t \in Tools : ~Active(t) /\ previous_snapping[t] # Null
    /\ user_snapping # [enabled |-> TRUE, target |-> NodeTable]
    /\ snapping_config = user_snapping

\* C18: activate() stores the snapping configuration before it alters it: the
\* stored value is the configuration activate() started from.
C18_StoredBeforeAltered ==
    event.op = "activate" => previous_snapping[event.self] = event.entry

\* C18 witness: an activate() that altered the configuration it started from
C18_Witness ==
    /\ event.op = "activate"
    /\ event.entry # snapping_config
    /\ previous_snapping[event.self] # snapping_config

\* C19: in every reachable state a tool's toolbar button is checked exactly
\* when the tool is Active.
C19_CheckedIffActive ==
    \A t \in Tools : checked[t] <=> Active(t)

\* C19 witness: one tool active and checked, the other one used before and
\* now unchecked
C19_Witness ==
    \E t, u \in Tools :
       /\ t # u
       /\ Active(t) /\ checked[t]
       /\ previous_snapping[u] # Null /\ ~checked[u]

\* C20: the identifier a release sends is the node identifier of the feature
\* of the tool's most recent valid pointer move, and every valid move makes
\* its feature the cached one.
C20_SendsLatestSnappedFeature ==
    /\ (event.op = "release" /\ Called(log, "get_json"))
       => \A i \in 1..Len(log) :
             log[i].op = "get_json"
             => log[i].body = JsonIdList(last_valid_snap[event.self].node_id)
    /\ (event.op = "move" /\ event.snap # Null)
       => snapped_feat[event.self] = event.snap

\* C20 witness: a release that sent the second node's identifier
C20_Witness ==
    /\ event.op = "release" /\ Called(log, "get_json")
    /\ last_valid_snap[event.self] = Feature(NodeId(2))
    /\ snapped_feat[event.self] = Feature(NodeId(2))

----------------------------------------------------------------------------
(* The two tools side by side: the flow-exit tool runs on the variables   *)
(* above, a flow-trace tool runs in twin, a host of its own that started  *)
(* in the same state, and both are delivered the same events.             *)

\* the host of the twin delivers activate() to the flow-trace tool
TwinActivate(w) ==
    LET s0 == IF w.map_tool \in Tools \ {FlowTrace}
              THEN deactivate(w.map_tool, [w EXCEPT !.log = <<>>])
              ELSE [w EXCEPT !.log = <<>>]
    IN  [activate(FlowTrace, s0) EXCEPT !.map_tool = FlowTrace]

\* the host of the twin delivers deactivate() to the flow-trace tool
TwinDeactivate(w) ==
    LET s1 == deactivate(FlowTrace, [w EXCEPT !.log = <<>>])
    IN  [s1 EXCEPT !.map_tool = IF @ = FlowTrace THEN PanTool ELSE @]

\* the host of the twin delivers canvasMoveEvent to the flow-trace tool
TwinMove(w, snap) == canvasMoveEvent(FlowTrace, [w EXCEPT !.log = <<>>], snap)

\* the host of the twin delivers canvasReleaseEvent to the flow-trace tool
TwinRelease(w, button, response) ==
    canvasReleaseEvent(FlowTrace, [w EXCEPT !.log = <<>>], button, response)

TwinNext ==
    \/ /\ Activate(FlowExit)
       /\ twin' = TwinActivate(twin)
       /\ UNCHANGED form_vars
    \/ /\ Deactivate(FlowExit)
       /\ twin' = TwinDeactivate(twin)
       /\ UNCHANGED form_vars
    \/ \E snap \in Features \cup {Null} :
          /\ Move(FlowExit, snap)
          /\ twin' = TwinMove(twin, snap)
          /\ UNCHANGED form_vars
    \/ \E button \in Buttons, response \in Responses :
          /\ Release(FlowExit, button, response)
          /\ twin' = TwinRelease(twin, button, response)
          /\ UNCHANGED form_vars

\* the twin's host starts in the state the flow-exit tool's host starts in
TwinInit ==
    /\ MapToolInit
    /\ twin = State
    /\ FormsNotCreated

SpecTwin == TwinInit /\ [][TwinNext]_vars

\* the name of the other tool where one tool is named
OtherTool(x) ==
    IF x = FlowExit THEN FlowTrace ELSE IF x = FlowTrace THEN FlowExit ELSE x

\* a log with the remote function's name and the help text blanked
Blanked(l) ==
    [i \in 1..Len(l) |->
        IF l[i].op = "get_json" THEN [l[i] EXCEPT !.arg = ""]
        ELSE IF l[i].op = "show_info" THEN [l[i] EXCEPT !.body = ""]
        ELSE l[i]]

----------------------------------------------------------------------------
(* class GwGo2Epa, the go2epa form (src/core/actions/epa/go2epa.py)       *)
(* A GwGo2Epa object is the record [dlg, user_values, log]: its dialog's  *)
(* widgets, the plugin settings it reads and writes, the calls it made.   *)

\* widget edits the user makes between two presses of a button
MaxEdits == 2

\* texts the user can have in txt_result_name
ResultNames == {"", "r1", "r2"}

\* result ids in table rpt_cat_result and in its view v_ui_rpt_cat_result
rpt_cat_result == {"r1"}

v_ui_rpt_cat_result == {"r1"}

\* paths QFileDialog.getSaveFileName can hand back; "" when cancelled
InpPaths == {"", "net.inp"}

RptPaths == {"", "net.rpt"}

Platforms == {"win32", "linux"}

\* Python False and True where a function may also return None
PyFalse == "False"

PyTrue == "True"

\* a row found by controller.get_row
Row == "row"

\* Go2EpaUI(): the widgets of a new dialog
Go2EpaUI ==
    [txt_result_name |-> "", txt_file_inp |-> "", txt_file_rpt |-> "",
     chk_only_check |-> FALSE, chk_only_check_enabled |-> TRUE,
     chk_export |-> FALSE, chk_export_subcatch |-> FALSE,
     chk_exec |-> FALSE, chk_exec_enabled |-> TRUE,
     chk_import_result |-> FALSE, edits |-> 0]

\* the plugin settings of a user who never saved the form
NoUserValues ==
    [go2epa_RESULT_NAME |-> "", go2epa_FILE_INP |-> "", go2epa_FILE_RPT |-> "",
     go2epa_chk_NETWORK_GEOM |-> None, go2epa_chk_INP |-> None,
     go2epa_chk_UD |-> None, go2epa_chk_EPA |-> None, go2epa_chk_RPT |-> None]

\* qt_tools.getWidgetText on a line edit: its text, None (or '') when empty
getWidgetText(text, return_string_null) ==
    IF text = "" THEN IF return_string_null THEN None ELSE "" ELSE text

\* controller.plugin_settings_set_value of a check state: QSettings keeps a
\* boolean as the string 'true' or 'false'
BoolSetting(b) == IF b THEN "true" ELSE "false"

\* GwGo2Epa.load_user_values
load_user_values(g) ==
    [g EXCEPT
       !.dlg.txt_result_name = g.user_values.go2epa_RESULT_NAME,
       !.dlg.txt_file_inp = g.user_values.go2epa_FILE_INP,
       !.dlg.txt_file_rpt = g.user_values.go2epa_FILE_RPT,
       !.dlg.chk_only_check =
           IF g.user_values.go2epa_chk_NETWORK_GEOM = "true" THEN TRUE ELSE @,
       !.dlg.chk_export =
           IF g.user_values.go2epa_chk_INP = "true" THEN TRUE ELSE @,
       !.dlg.chk_export_subcatch =
           IF g.user_values.go2epa_chk_UD = "true" THEN TRUE ELSE @,
       !.dlg.chk_exec =
           IF g.user_values.go2epa_chk_EPA = "true" THEN TRUE ELSE @,
       !.dlg.chk_import_result =
           IF g.user_values.go2epa_chk_RPT = "true" THEN TRUE ELSE @]

\* GwGo2Epa.save_user_values
save_user_values(g) ==
    LET stored ==
          [go2epa_RESULT_NAME |-> getWidgetText(g.dlg.txt_result_name, FALSE),
           go2epa_FILE_INP |-> getWidgetText(g.dlg.txt_file_inp, FALSE),
           go2epa_FILE_RPT |-> getWidgetText(g.dlg.txt_file_rpt, FALSE),
           go2epa_chk_NETWORK_GEOM |-> BoolSetting(g.dlg.chk_only_check),
           go2epa_chk_INP |-> BoolSetting(g.dlg.chk_export),
           go2epa_chk_UD |-> BoolSetting(g.dlg.chk_export_subcatch),
           go2epa_chk_EPA |-> BoolSetting(g.dlg.chk_exec),
           go2epa_chk_RPT |-> BoolSetting(g.dlg.chk_import_result)]
    IN  Logged([g EXCEPT !.user_values = stored], "save_user_values", "", "")

\* GwGo2Epa.set_completer_result: the rows of the view are never empty here
set_completer_result(g) ==
    LET result_name == getWidgetText(g.dlg.txt_result_name, TRUE)
    IN  IF result_name \in v_ui_rpt_cat_result
        THEN [g EXCEPT !.dlg.chk_only_check_enabled = TRUE]
        ELSE g

\* a go2epa() that looks at the platform before it loads the stored values
Faulty_go2epa_platform_first(g, sys_platform) ==
    LET g1 == [g EXCEPT !.dlg = Go2EpaUI, !.log = <<>>]
        g2 == IF sys_platform # "win32"
              THEN [g1 EXCEPT !.dlg.chk_exec = FALSE,
                              !.dlg.chk_exec_enabled = FALSE]
              ELSE g1
        g3 == load_user_values(g2)
        g4 == set_completer_result(g3)
    IN  Logged(g4, "open_dialog", "go2epa", "")

\* GwGo2Epa.go2epa: button 23 opens the form
go2epa(g, sys_platform) ==
    LET g1 == [g EXCEPT !.dlg = Go2EpaUI, !.log = <<>>]
        g2 == load_user_values(g1)
        g3 == IF sys_platform # "win32"
              THEN [g2 EXCEPT !.dlg.chk_exec = FALSE,
                              !.dlg.chk_exec_enabled = FALSE]
              ELSE g2
        g4 == set_completer_result(g3)
    IN  Logged(g4, "open_dialog", "go2epa", "")

\* a check_result_id that leaves the check box checked
Faulty_check_result_id_keeps_check(g) ==
    LET result_id == getWidgetText(g.dlg.txt_result_name, TRUE)
        row == IF result_id \in v_ui_rpt_cat_result THEN Row ELSE None
    IN  IF row = None
        THEN [g EXCEPT !.dlg.chk_only_check_enabled = FALSE]
        ELSE [g EXCEPT !.dlg.chk_only_check_enabled = TRUE]

\* GwGo2Epa.check_result_id
check_result_id(g) ==
    LET result_id == getWidgetText(g.dlg.txt_result_name, TRUE)
        row == IF result_id \in v_ui_rpt_cat_result THEN Row ELSE None
    IN  IF row = None
        THEN [g EXCEPT !.dlg.chk_only_check = FALSE,
                       !.dlg.chk_only_check_enabled = FALSE]
        ELSE [g EXCEPT !.dlg.chk_only_check_enabled = TRUE]

\* GwGo2Epa.go2epa_select_file_inp: the chosen path becomes the widget's text
go2epa_select_file_inp(g, path) == [g EXCEPT !.dlg.txt_file_inp = path]

\* GwGo2Epa.go2epa_select_file_rpt
go2epa_select_file_rpt(g, path) == [g EXCEPT !.dlg.txt_file_rpt = path]

\* GwGo2Epa.check_inp_chk: False for no file, None otherwise
check_inp_chk(file_inp) == IF file_inp = None THEN PyFalse ELSE None

\* GwGo2Epa.check_rpt: False or None; inp_exists is os.path.exists(file_inp)
check_rpt(g, inp_exists) ==
    LET file_inp == getWidgetText(g.dlg.txt_file_inp, TRUE)
        file_rpt == getWidgetText(g.dlg.txt_file_rpt, TRUE)
    IN  IF g.dlg.chk_exec
        THEN IF check_inp_chk(file_inp) = PyFalse
             THEN PyFalse
             ELSE IF file_rpt = None
                  THEN PyFalse
                  ELSE IF ~g.dlg.chk_export /\ ~inp_exists
                       THEN PyFalse
                       ELSE None
        ELSE None

\* what a function hands back: the object after it, and its return value
Return(g, ret) == [g |-> g, ret |-> ret]

\* a check_fields that overwrites an existing result without asking
Faulty_check_fields_no_question(g, inp_exists, rpt_exists, answer) ==
    LET file_inp == getWidgetText(g.dlg.txt_file_inp, TRUE)
        file_rpt == getWidgetText(g.dlg.txt_file_rpt, TRUE)
        result_name == getWidgetText(g.dlg.txt_result_name, FALSE)
    IN  IF g.dlg.chk_export /\ check_inp_chk(file_inp) = PyFalse
        THEN Return(Logged(g, "show_warning", "Select valid INP file", ""), PyFalse)
        ELSE IF check_rpt(g, inp_exists) = PyFalse
        THEN Return(Logged(g, "show_warning", "check_rpt", ""), PyFalse)
        ELSE IF g.dlg.chk_import_result /\ file_rpt = None
        THEN Return(Logged(g, "show_warning", "Select valid RPT file", ""), PyFalse)
        ELSE IF g.dlg.chk_import_result /\ ~g.dlg.chk_exec /\ ~rpt_exists
        THEN Return(Logged(g, "show_warning", "File RPT not found", ""), PyFalse)
        ELSE IF g.dlg.chk_import_result /\ g.dlg.chk_exec
                /\ check_rpt(g, inp_exists) = PyFalse
        THEN Return(Logged(g, "show_warning", "check_rpt", ""), PyFalse)
        ELSE IF result_name = ""
        THEN Return(Logged(g, "show_details",
                           "This parameter is mandatory. Please, set a value", ""),
                    PyFalse)
        ELSE Return(g, PyTrue)

\* GwGo2Epa.check_fields: False or True; inp_exists and rpt_exists are what
\* os.path.exists finds, answer is the user's answer to the overwrite question
check_fields(g, inp_exists, rpt_exists, answer) ==
    LET file_inp == getWidgetText(g.dlg.txt_file_inp, TRUE)
        file_rpt == getWidgetText(g.dlg.txt_file_rpt, TRUE)
        result_name == getWidgetText(g.dlg.txt_result_name, FALSE)
    IN  IF g.dlg.chk_export /\ check_inp_chk(file_inp) = PyFalse
        THEN Return(Logged(g, "show_warning", "Select valid INP file", ""), PyFalse)
        ELSE IF check_rpt(g, inp_exists) = PyFalse
        THEN Return(Logged(g, "show_warning", "check_rpt", ""), PyFalse)
        ELSE IF g.dlg.chk_import_result /\ file_rpt = None
        THEN Return(Logged(g, "show_warning", "Select valid RPT file", ""), PyFalse)
        ELSE IF g.dlg.chk_import_result /\ ~g.dlg.chk_exec /\ ~rpt_exists
        THEN Return(Logged(g, "show_warning", "File RPT not found", ""), PyFalse)
        ELSE IF g.dlg.chk_import_result /\ g.dlg.chk_exec
                /\ check_rpt(g, inp_exists) = PyFalse
        THEN Return(Logged(g, "show_warning", "check_rpt", ""), PyFalse)
        ELSE IF result_name = ""
        THEN Return(Logged(g, "show_details",
                           "This parameter is mandatory. Please, set a value", ""),
                    PyFalse)
        ELSE IF result_name \in rpt_cat_result
        THEN LET g1 == Logged(g, "ask_question",
                              "Result name already exists, do you want overwrite?", "")
             IN  IF ~answer THEN Return(g1, PyFalse) ELSE Return(g1, PyTrue)
        ELSE Return(g, PyTrue)

\* a go2epa_accept that starts the task without looking at the sectors
Faulty_accept_no_sector_check(g, inp_exists, rpt_exists, answer, sector_row) ==
    LET g1 == save_user_values([g EXCEPT !.log = <<>>])
        checked_ == check_fields(g1, inp_exists, rpt_exists, answer)
        status == checked_.ret
        g2 == Logged(checked_.g, "check_fields", status, "")
    IN  IF status = PyFalse
        THEN g2
        ELSE Logged(Logged(g2, "addTask", "Go2Epa", ""), "triggerTask", "Go2Epa", "")

\* a go2epa_accept that saves the user's values once they are validated
Faulty_accept_save_late(g, inp_exists, rpt_exists, answer, sector_row) ==
    LET g1 == [g EXCEPT !.log = <<>>]
        checked_ == check_fields(g1, inp_exists, rpt_exists, answer)
        status == checked_.ret
        g2 == Logged(checked_.g, "check_fields", status, "")
    IN  IF status = PyFalse
        THEN g2
        ELSE LET export_inp == g2.dlg.chk_export
                 g3 == IF export_inp
                       THEN Logged(save_user_values(g2), "get_row", "selector_sector", "")
                       ELSE save_user_values(g2)
             IN  IF export_inp /\ sector_row = None
                 THEN Logged(g3, "show_info_box", "You need to select some sector", "")
                 ELSE Logged(Logged(g3, "addTask", "Go2Epa", ""),
                             "triggerTask", "Go2Epa", "")

\* GwGo2Epa.go2epa_accept; sector_row is the row of selector_sector, or None
go2epa_accept(g, inp_exists, rpt_exists, answer, sector_row) ==
    LET g1 == save_user_values([g EXCEPT !.log = <<>>])
        checked_ == check_fields(g1, inp_exists, rpt_exists, answer)
        status == checked_.ret
        g2 == Logged(checked_.g, "check_fields", status, "")
    IN  IF status = PyFalse
        THEN g2
        ELSE LET export_inp == g2.dlg.chk_export
                 g3 == IF export_inp
                       THEN Logged(g2, "get_row", "selector_sector", "")
                       ELSE g2
             IN  IF export_inp /\ sector_row = None
                 THEN Logged(g3, "show_info_box", "You need to select some sector", "")
                 ELSE Logged(Logged(g3, "addTask", "Go2Epa", ""),
                             "triggerTask", "Go2Epa", "")

\* the GwGo2Epa object now, and back
Go2EpaObject == [dlg |-> dlg_go2epa, user_values |-> user_values, log |-> <<>>]

CommitGo2Epa(g) ==
    /\ dlg_go2epa' = g.dlg
    /\ user_values' = g.user_values
    /\ log' = g.log
    /\ UNCHANGED <<platform, tool_vars, twin, selector_vars, plugin_vars,
                   dlg_duplicate_psector>>

\* the event now delivered to the form
Go2EpaEvent(op, arg, answer, sector_row) ==
    [op |-> op, arg |-> arg, answer |-> answer, sector_row |-> sector_row]

\* the user presses button 23
PressGo2Epa ==
    /\ CommitGo2Epa(go2epa(Go2EpaObject, platform))
    /\ event' = Go2EpaEvent("go2epa", user_values.go2epa_chk_EPA, NoInput, NoInput)

\* the user types a result name: textChanged calls check_result_id
TypeResultName(name) ==
    /\ dlg_go2epa # Null
    /\ dlg_go2epa.edits < MaxEdits
    /\ name # dlg_go2epa.txt_result_name
    /\ CommitGo2Epa(check_result_id(
          [Go2EpaObject EXCEPT !.dlg.txt_result_name = name,
                               !.dlg.edits = @ + 1]))
    /\ event' = Go2EpaEvent("check_result_id",
                            BoolSetting(dlg_go2epa.chk_only_check), NoInput, NoInput)

\* the user picks a file with one of the two file buttons
SelectFile(widget, path) ==
    /\ dlg_go2epa # Null
    /\ dlg_go2epa.edits < MaxEdits
    /\ CommitGo2Epa(
          IF widget = "txt_file_inp"
          THEN go2epa_select_file_inp([Go2EpaObject EXCEPT !.dlg.edits = @ + 1], path)
          ELSE go2epa_select_file_rpt([Go2EpaObject EXCEPT !.dlg.edits = @ + 1], path))
    /\ event' = Go2EpaEvent("select_file", widget, NoInput, NoInput)

\* the check boxes the user can click: a disabled one takes no click
Clickable(d) ==
    {"chk_export", "chk_import_result"}
      \cup (IF d.chk_exec_enabled THEN {"chk_exec"} ELSE {})
      \cup (IF d.chk_only_check_enabled THEN {"chk_only_check"} ELSE {})

\* the user clicks a check box
Click(widget) ==
    /\ dlg_go2epa # Null
    /\ dlg_go2epa.edits < MaxEdits
    /\ widget \in Clickable(dlg_go2epa)
    /\ CommitGo2Epa([Go2EpaObject EXCEPT !.dlg[widget] = ~@, !.dlg.edits = @ + 1])
    /\ event' = Go2EpaEvent("click", widget, NoInput, NoInput)

\* the user presses Accept
PressAccept(inp_exists, rpt_exists, answer, sector_row) ==
    /\ dlg_go2epa # Null
    /\ LET g == go2epa_accept([Go2EpaObject EXCEPT !.dlg.edits = 0],
                              inp_exists, rpt_exists, answer, sector_row)
       IN  /\ CommitGo2Epa(g)
           /\ event' = Go2EpaEvent("go2epa_accept", NoInput,
                          IF Called(g.log, "ask_question")
                          THEN BoolSetting(answer) ELSE NoInput,
                          IF Called(g.log, "get_row")
                          THEN sector_row ELSE NoInput)

Go2EpaInit ==
    /\ MapToolInit
    /\ snapping_config = [enabled |-> FALSE, target |-> ArcTable]
    /\ project_layers = {ArcTable, NodeTable}
    /\ active_layer = None
    /\ show_help = FALSE
    /\ twin = Null
    /\ dlg_go2epa = Null
    /\ user_values \in {NoUserValues, [NoUserValues EXCEPT !.go2epa_chk_EPA = "true"]}
    /\ platform \in Platforms
    /\ selector_rpt = Null
    /\ project_type = "ws"
    /\ giswater = Null
    /\ iface = Null
    /\ dlg_duplicate_psector = Null

Go2EpaNext ==
    \/ PressGo2Epa
    \/ \E name \in ResultNames : TypeResultName(name)
    \/ \E path \in InpPaths : SelectFile("txt_file_inp", path)
    \/ \E path \in RptPaths : SelectFile("txt_file_rpt", path)
    \/ \E widget \in {"chk_export", "chk_import_result", "chk_exec", "chk_only_check"} :
          Click(widget)
    \/ \E inp_exists, rpt_exists, answer \in BOOLEAN, sector_row \in {None, Row} :
          PressAccept(inp_exists, rpt_exists, answer, sector_row)

SpecGo2Epa == Go2EpaInit /\ [][Go2EpaNext]_vars

\* where in a log the first call of that kind is, 0 when there is none
FirstCall(l, op) ==
    IF Called(l, op)
    THEN CHOOSE i \in 1..Len(l) :
            l[i].op = op /\ \A j \in 1..(i - 1) : l[j].op # op
    ELSE 0

\* what check_fields returned to the last go2epa_accept
CheckFieldsStatus == log[FirstCall(log, "check_fields")].arg

\* C22: go2epa_accept adds and triggers the Go2Epa task exactly when
\* check_fields did not return False and, with export INP checked, a sector is
\* selected; it then adds one task and triggers it after adding it, and in
\* every other case it neither adds nor triggers a task.
C22_TaskOnlyWhenValid ==
    event.op = "go2epa_accept"
    => LET cleared == /\ CheckFieldsStatus # PyFalse
                      /\ dlg_go2epa.chk_export => event.sector_row = Row
       IN  /\ cleared
              => /\ Count(log, "addTask") = 1
                 /\ Count(log, "triggerTask") = 1
                 /\ FirstCall(log, "addTask") < FirstCall(log, "triggerTask")
           /\ ~cleared
              => /\ ~Called(log, "addTask")
                 /\ ~Called(log, "triggerTask")

\* C22 witness: an accept with export INP checked and a sector selected that
\* started the task
C22_Witness ==
    /\ event.op = "go2epa_accept"
    /\ dlg_go2epa.chk_export
    /\ event.sector_row = Row
    /\ Called(log, "triggerTask")

\* C23: check_fields returns False whenever the result name is empty; for a
\* result name that exists in rpt_cat_result it returns True only after the
\* user confirmed the overwrite question, and False when the user declined.
C23_CheckFieldsResultName ==
    event.op = "go2epa_accept"
    => /\ dlg_go2epa.txt_result_name = "" => CheckFieldsStatus = PyFalse
       /\ (dlg_go2epa.txt_result_name \in rpt_cat_result /\ CheckFieldsStatus = PyTrue)
          => Called(log, "ask_question") /\ event.answer = "true"
       /\ (Called(log, "ask_question") /\ event.answer = "false")
          => CheckFieldsStatus = PyFalse
       /\ CheckFieldsStatus \in {PyFalse, PyTrue}

\* C23 witness: the user declined to overwrite an existing result
C23_Witness ==
    /\ event.op = "go2epa_accept"
    /\ dlg_go2epa.txt_result_name \in rpt_cat_result
    /\ Called(log, "ask_question")
    /\ event.answer = "false"
    /\ CheckFieldsStatus = PyFalse

\* C24: go2epa_accept saves the dialog's values before it validates them:
\* after every accept, also one whose validation failed and that started no
\* task, the stored user values are the dialog's result name, file paths and
\* check states.
C24_SavedBeforeValidation ==
    event.op = "go2epa_accept"
    => /\ FirstCall(log, "save_user_values") = 1
       /\ FirstCall(log, "save_user_values") < FirstCall(log, "check_fields")
       /\ user_values.go2epa_RESULT_NAME = dlg_go2epa.txt_result_name
       /\ user_values.go2epa_FILE_INP = dlg_go2epa.txt_file_inp
       /\ user_values.go2epa_FILE_RPT = dlg_go2epa.txt_file_rpt
       /\ user_values.go2epa_chk_NETWORK_GEOM = BoolSetting(dlg_go2epa.chk_only_check)
       /\ user_values.go2epa_chk_INP = BoolSetting(dlg_go2epa.chk_export)
       /\ user_values.go2epa_chk_UD = BoolSetting(dlg_go2epa.chk_export_subcatch)
       /\ user_values.go2epa_chk_EPA = BoolSetting(dlg_go2epa.chk_exec)
       /\ user_values.go2epa_chk_RPT = BoolSetting(dlg_go2epa.chk_import_result)

\* C24 witness: an accept that failed validation (no result name) and started
\* no task, with export INP checked and a file chosen since the form was opened
C24_Witness ==
    /\ event.op = "go2epa_accept"
    /\ CheckFieldsStatus = PyFalse
    /\ ~Called(log, "addTask")
    /\ dlg_go2epa.txt_result_name = ""
    /\ user_values.go2epa_chk_INP = "true"
    /\ user_values.go2epa_FILE_INP = "net.inp"

\* C26: after check_result_id the 'only check' box is enabled exactly when
\* the typed result id exists in v_ui_rpt_cat_result, and when it does not
\* exist the box is also unchecked.
C26_OnlyCheckFollowsResultId ==
    event.op = "check_result_id"
    => /\ dlg_go2epa.chk_only_check_enabled
          <=> dlg_go2epa.txt_result_name \in v_ui_rpt_cat_result
       /\ dlg_go2epa.txt_result_name \notin v_ui_rpt_cat_result
          => ~dlg_go2epa.chk_only_check

\* C26 witness: the box was checked when the user typed a result id that
\* does not exist
C26_Witness ==
    /\ event.op = "check_result_id"
    /\ event.arg = "true"
    /\ dlg_go2epa.txt_result_name = "r2"
    /\ ~dlg_go2epa.chk_only_check
    /\ ~dlg_go2epa.chk_only_check_enabled

\* C27: on a platform other than Windows, when go2epa() has opened the form
\* the 'execute EPA software' box is unchecked and disabled, whatever the
\* stored user value says.
C27_ExecOffOutsideWindows ==
    (event.op = "go2epa" /\ platform # "win32")
    => /\ ~dlg_go2epa.chk_exec
       /\ ~dlg_go2epa.chk_exec_enabled

\* C27 witness: the form opened on Linux with the stored value 'true' for
\* the box
C27_Witness ==
    /\ event.op = "go2epa"
    /\ platform = "linux"
    /\ event.arg = "true"
    /\ user_values.go2epa_chk_EPA = "true"
    /\ ~dlg_go2epa.chk_exec

----------------------------------------------------------------------------
(* GwGo2Epa.result_selector_accept and the four selector_rpt_* tables     *)

SelectorTables ==
    {"selector_rpt_main", "selector_rpt_compare",
     "selector_rpt_main_tstep", "selector_rpt_compare_tstep"}

\* controller.get_project_user(), and another user of the same database
ProjectUser == "u1"

OtherUser == "u2"

ProjectTypes == {"ws", "ud"}

\* item data of the result combos, of the time combos and of the date combos
ResultIds == {None, "r1", "r2"}

Times == {"", "t1"}

Dates == {"", "d1"}

\* "not in (None, -1, '')": the item data that stand for no selection
Unselected(data) == data \in {None, "-1", ""}

\* a row of selector_rpt_main or selector_rpt_compare
ResultRow(result_id, cur_user) == [result_id |-> result_id, cur_user |-> cur_user]

\* a row of a tstep table of a 'ws' project
TimestepRow(timestep, cur_user) == [timestep |-> timestep, cur_user |-> cur_user]

\* a row of a tstep table of a 'ud' project
DateTimeRow(resultdate, resulttime, cur_user) ==
    [resultdate |-> resultdate, resulttime |-> resulttime, cur_user |-> cur_user]

\* the GwGo2Epa object as far as the selector goes: [tables, log]
SelectorObject == [tables |-> selector_rpt, log |-> <<>>]

\* controller.execute_sql of "DELETE FROM table WHERE cur_user = user"
Delete(g, table, user) ==
    Logged([g EXCEPT !.tables[table] = {r \in @ : r.cur_user # user}],
           "DELETE", table, user)

\* controller.execute_sql of "INSERT INTO table ... VALUES (...)"
Insert(g, table, row) ==
    Logged([g EXCEPT !.tables[table] = @ \cup {row}], "INSERT", table, row.cur_user)

\* a result_selector_accept that inserts the new rows beside the old ones
Faulty_selector_accept_no_delete(g, project, combos) ==
    LET user == ProjectUser
        result_id == combos.rpt_selector_result_id
        compare_id == combos.rpt_selector_compare_id
        g2 == IF ~Unselected(result_id)
              THEN Insert(g, "selector_rpt_main", ResultRow(result_id, user))
              ELSE g
        g3 == IF ~Unselected(compare_id)
              THEN Insert(g2, "selector_rpt_compare", ResultRow(compare_id, user))
              ELSE g2
    IN  Logged(Logged(g3, "show_info", "Values has been updated", ""),
               "close_dialog", "dlg_go2epa_result", "")

\* GwGo2Epa.result_selector_accept; combos holds the item data of the
\* dialog's combos
result_selector_accept(g, project, combos) ==
    LET user == ProjectUser
        result_id == combos.rpt_selector_result_id
        compare_id == combos.rpt_selector_compare_id
        time_to_show == combos.time_to_show
        time_to_compare == combos.time_to_compare
        date_to_show == combos.date_to_show
        date_to_compare == combos.date_to_compare
        d1 == Delete(g, "selector_rpt_main", user)
        d2 == Delete(d1, "selector_rpt_compare", user)
        d3 == Delete(d2, "selector_rpt_main_tstep", user)
        g1 == Delete(d3, "selector_rpt_compare_tstep", user)
        g2 == IF ~Unselected(result_id)
              THEN Insert(g1, "selector_rpt_main", ResultRow(result_id, user))
              ELSE g1
        g3 == IF ~Unselected(compare_id)
              THEN Insert(g2, "selector_rpt_compare", ResultRow(compare_id, user))
              ELSE g2
        g4 == IF project = "ws"
              THEN IF ~Unselected(time_to_show)
                   THEN Insert(g3, "selector_rpt_main_tstep",
                               TimestepRow(time_to_show, user))
                   ELSE g3
              ELSE IF project = "ud"
                   THEN IF ~Unselected(date_to_show)
                        THEN Insert(g3, "selector_rpt_main_tstep",
                                    DateTimeRow(date_to_show, time_to_show, user))
                        ELSE g3
                   ELSE g3
        g5 == IF project = "ws"
              THEN IF ~Unselected(time_to_compare)
                   THEN Insert(g4, "selector_rpt_compare_tstep",
                               TimestepRow(time_to_compare, user))
                   ELSE g4
              ELSE IF project = "ud"
                   THEN IF ~Unselected(date_to_compare)
                        THEN Insert(g4, "selector_rpt_compare_tstep",
                                    DateTimeRow(date_to_compare, time_to_compare, user))
                        ELSE g4
                   ELSE g4
    IN  Logged(Logged(g5, "show_info", "Values has been updated", ""),
               "close_dialog", "dlg_go2epa_result", "")

\* the user presses Accept in the result selector; a 'ws' project's dialog has
\* no date combos to read
ResultSelectorAccept(combos) ==
    LET g == result_selector_accept(SelectorObject, project_type, combos)
    IN  /\ project_type = "ws"
           => combos.date_to_show = "" /\ combos.date_to_compare = ""
        /\ selector_rpt' = g.tables
        /\ log' = g.log
        /\ event' = [op |-> "result_selector_accept",
                     result_id |-> combos.rpt_selector_result_id,
                     compare_id |-> combos.rpt_selector_compare_id,
                     time_to_show |-> combos.time_to_show,
                     time_to_compare |-> combos.time_to_compare,
                     date_to_show |-> combos.date_to_show,
                     date_to_compare |-> combos.date_to_compare,
                     rows_before |-> Cardinality(
                        {r \in UNION {selector_rpt[tb] : tb \in SelectorTables} :
                            r.cur_user = ProjectUser})]
        /\ UNCHANGED <<project_type, tool_vars, twin, go2epa_vars, plugin_vars,
                       dlg_duplicate_psector>>

\* rows left by earlier sessions: two of the project user's in each table,
\* one of another user's
StaleRows(project, table) ==
    IF table \in {"selector_rpt_main", "selector_rpt_compare"}
    THEN {ResultRow("r1", ProjectUser), ResultRow("r2", ProjectUser),
          ResultRow("r1", OtherUser)}
    ELSE IF project = "ws"
         THEN {TimestepRow("t1", ProjectUser), TimestepRow("t0", ProjectUser),
               TimestepRow("t1", OtherUser)}
         ELSE {DateTimeRow("d1", "t1", ProjectUser), DateTimeRow("d0", "t0", ProjectUser),
               DateTimeRow("d1", "t1", OtherUser)}

SelectorInit ==
    /\ MapToolInit
    /\ snapping_config = [enabled |-> FALSE, target |-> ArcTable]
    /\ project_layers = {ArcTable, NodeTable}
    /\ active_layer = None
    /\ show_help = FALSE
    /\ twin = Null
    /\ dlg_go2epa = Null
    /\ user_values = Null
    /\ platform = "win32"
    /\ project_type \in ProjectTypes
    /\ selector_rpt \in {[tb \in SelectorTables |-> {}],
                         [tb \in SelectorTables |-> StaleRows(project_type, tb)]}
    /\ giswater = Null
    /\ iface = Null
    /\ dlg_duplicate_psector = Null

\* the item data the dialog's combos can have when Accept is pressed
Combos ==
    [rpt_selector_result_id : ResultIds, rpt_selector_compare_id : ResultIds,
     time_to_show : Times, time_to_compare : Times,
     date_to_show : Dates, date_to_compare : Dates]

SelectorNext == \E combos \in Combos : ResultSelectorAccept(combos)

SpecSelector == SelectorInit /\ [][SelectorNext]_vars

\* the project user's rows of a table
Mine(table) == {r \in selector_rpt[table] : r.cur_user = ProjectUser}

\* where in a log the last call of that kind is, 0 when there is none
LastCall(l, op) ==
    IF Called(l, op)
    THEN CHOOSE i \in 1..Len(l) :
            l[i].op = op /\ \A j \in (i + 1)..Len(l) : l[j].op # op
    ELSE 0

\* C25: after a result_selector_accept each of the four selector tables holds
\* at most one row of the project user; a row it holds carries the value
\* selected in that accept, a table whose selection was empty holds no row of
\* the user's, and the four deletes of the user's previous rows came before
\* every insert.
C25_OneRowPerUser ==
    event.op = "result_selector_accept"
    => /\ \A tb \in SelectorTables : Cardinality(Mine(tb)) <= 1
       /\ \A r \in Mine("selector_rpt_main") : r.result_id = event.result_id
       /\ \A r \in Mine("selector_rpt_compare") : r.result_id = event.compare_id
       /\ Unselected(event.result_id) => Mine("selector_rpt_main") = {}
       /\ Unselected(event.compare_id) => Mine("selector_rpt_compare") = {}
       /\ project_type = "ws"
          => /\ \A r \in Mine("selector_rpt_main_tstep") :
                   r.timestep = event.time_to_show
             /\ \A r \in Mine("selector_rpt_compare_tstep") :
                   r.timestep = event.time_to_compare
             /\ Unselected(event.time_to_show)
                => Mine("selector_rpt_main_tstep") = {}
             /\ Unselected(event.time_to_compare)
                => Mine("selector_rpt_compare_tstep") = {}
       /\ project_type = "ud"
          => /\ \A r \in Mine("selector_rpt_main_tstep") :
                   /\ r.resultdate = event.date_to_show
                   /\ r.resulttime = event.time_to_show
             /\ \A r \in Mine("selector_rpt_compare_tstep") :
                   /\ r.resultdate = event.date_to_compare
                   /\ r.resulttime = event.time_to_compare
             /\ Unselected(event.date_to_show)
                => Mine("selector_rpt_main_tstep") = {}
             /\ Unselected(event.date_to_compare)
                => Mine("selector_rpt_compare_tstep") = {}
       /\ Count(log, "DELETE") = 4
       /\ Called(log, "INSERT") => LastCall(log, "DELETE") < FirstCall(log, "INSERT")

\* C25 witness: an accept that found rows of the user's in the tables and
\* left one new row in the main table and none in the compare table
C25_Witness ==
    /\ event.op = "result_selector_accept"
    /\ event.rows_before > 0
    /\ Mine("selector_rpt_main") = {ResultRow("r2", ProjectUser)}
    /\ event.compare_id = None
    /\ Mine("selector_rpt_compare") = {}
    /\ Cardinality(Mine("selector_rpt_main_tstep")) = 1

----------------------------------------------------------------------------
(* class Giswater, the plugin object (src/giswater.py)                    *)
(* The plugin is the record [gw, iface, log, exc]: the object's fields,   *)
(* what the host GUI holds of the plugin, the calls made, and the         *)
(* exception now propagating ("" for none).                               *)

\* QGIS projects the user can open
Projects == {"p1", "p2"}

\* the step of unload() that raises, if the step is reached
Faults == {"none", "save_toolbars_position", "use_notify", "removePluginMenu",
           "setVisible", "disconnect"}

\* Giswater.__init__: the fields unload() and project_read() use
NewGiswater ==
    [load_project |-> Null, action |-> None, action_info |-> None,
     btn_add_layers |-> None, controller |-> None]

\* the plugin's share of a host GUI before the plugin is initialised
NewIface(dockers) ==
    [plugin_menu |-> {}, toolbars |-> {}, info_button |-> FALSE, dockers |-> dockers]

\* LoadProject(...): a project manager that has read no project yet
LoadProject(project) == [project |-> project, actions |-> {}, plugin_toolbars |-> {}]

\* LoadProject.project_read: on a Giswater project it creates the project's
\* actions and toolbars and registers them in the host
LoadProject_project_read(k, is_giswater) ==
    LET project == k.gw.load_project.project
        k1 == Logged(k, "LoadProject.project_read", project, "")
    IN  IF is_giswater
        THEN [k1 EXCEPT !.gw.load_project.actions = {project},
                        !.gw.load_project.plugin_toolbars = {project},
                        !.iface.plugin_menu = @ \cup {project},
                        !.iface.toolbars = @ \cup {project}]
        ELSE k1

\* an exception raised inside a try block by the statement named
Exc(k, exc, statement) == [Logged(k, "except", exc, statement) EXCEPT !.exc = exc]

\* Giswater.set_info_button
set_info_button(k) ==
    [Logged(k, "addToolBarWidget", "info", "")
       EXCEPT !.gw.action = "Show info", !.gw.action_info = "info",
              !.iface.info_button = TRUE]

\* Giswater.unset_info_button
unset_info_button(k, fault) ==
    LET k1 == IF k.gw.action # None
              THEN Logged(k, "disconnect", "info", "")
              ELSE k
        k2 == IF k1.gw.action_info # None
              THEN [Logged(k1, "removeToolBarIcon", "info", "")
                      EXCEPT !.iface.info_button = FALSE]
              ELSE k1
    IN  IF k.gw.action # None /\ fault = "disconnect"
        THEN Exc(k, "TypeError", "disconnect")
        ELSE [k2 EXCEPT !.gw.action = None, !.gw.action_info = None]

\* Giswater.remove_dockers: btn_add_layers is never set in this file
remove_dockers(k) ==
    IF k.iface.dockers # {}
    THEN [Logged(k, "removeDockWidget", "dockers", "") EXCEPT !.iface.dockers = {}]
    ELSE k

\* the try block of unload() up to the test of remove_modules
unload_project(k, fault) ==
    LET a == IF fault = "use_notify" THEN Exc(k, "AttributeError", "use_notify") ELSE k
        b == IF a.exc # "" \/ a.gw.load_project = Null
             THEN a
             ELSE IF a.gw.load_project.actions = {}
                  THEN a
                  ELSE IF fault = "removePluginMenu"
                       THEN Exc(a, "RuntimeError", "removePluginMenu")
                       ELSE [Logged(Logged(a, "removePluginMenu",
                                           a.gw.load_project.project, ""),
                                    "removeToolBarIcon", a.gw.load_project.project, "")
                               EXCEPT !.iface.plugin_menu =
                                          @ \ a.gw.load_project.actions]
    IN  IF b.exc # "" \/ b.gw.load_project = Null
        THEN b
        ELSE IF b.gw.load_project.plugin_toolbars = {}
             THEN b
             ELSE IF fault = "setVisible"
                  THEN Exc(b, "RuntimeError", "setVisible")
                  ELSE [Logged(b, "setVisible", b.gw.load_project.project, PyFalse)
                          EXCEPT !.iface.toolbars =
                                     @ \ b.gw.load_project.plugin_toolbars]

\* an unload() that forgets the project only when no step raised
Faulty_unload_no_finally(k, remove_modules, fault) ==
    LET k0 == Logged(k, "unload", IF remove_modules THEN PyTrue ELSE PyFalse, "")
        k1 == remove_dockers(k0)
        k2 == IF fault = "save_toolbars_position"
              THEN Logged(k1, "log_warning", "save_toolbars_position", "")
              ELSE Logged(k1, "save_toolbars_position", "", "")
        k3 == unload_project(k2, fault)
        k4 == IF k3.exc # ""
              THEN k3
              ELSE IF remove_modules
                   THEN LET k5 == unset_info_button(k3, fault)
                        IN  IF k5.exc # ""
                            THEN k5
                            ELSE Logged(k5, "del sys.modules", "", "")
                   ELSE Exc(k3, "AttributeError", "set_info_button_visible")
    IN  IF k4.exc # ""
        THEN [k4 EXCEPT !.exc = ""]
        ELSE [k4 EXCEPT !.gw.load_project = Null]

\* Giswater.unload. With remove_modules False the else branch calls
\* set_info_button_visible, which the class does not define: the
\* AttributeError is swallowed with every other exception of the block.
unload(k, remove_modules, fault) ==
    LET k0 == Logged(k, "unload", IF remove_modules THEN PyTrue ELSE PyFalse, "")
        k1 == remove_dockers(k0)
        k2 == IF fault = "save_toolbars_position"
              THEN Logged(k1, "log_warning", "save_toolbars_position", "")
              ELSE Logged(k1, "save_toolbars_position", "", "")
        k3 == unload_project(k2, fault)
        k4 == IF k3.exc # ""
              THEN k3
              ELSE IF remove_modules
                   THEN LET k5 == unset_info_button(k3, fault)
                        IN  IF k5.exc # ""
                            THEN k5
                            ELSE Logged(k5, "del sys.modules", "", "")
                   ELSE Exc(k3, "AttributeError", "set_info_button_visible")
    IN  [k4 EXCEPT !.gw.load_project = Null, !.exc = ""]

\* Giswater.project_new
project_new(k, fault) == unload(k, FALSE, fault)

\* a project_read that keeps the previous project loaded
Faulty_project_read_no_unload(k, project, is_giswater, fault) ==
    LET k1 == k
        k2 == Logged(k1, "LoadProject", project,
                     IF k1.gw.load_project = Null
                     THEN None ELSE k1.gw.load_project.project)
        k3 == [k2 EXCEPT !.gw.load_project = LoadProject(project)]
    IN  LoadProject_project_read(k3, is_giswater)

\* Giswater.project_read. The LoadProject entry of the log tells which
\* project the plugin still held when the new LoadProject was created.
project_read(k, project, is_giswater, fault) ==
    LET k1 == unload(k, FALSE, fault)
        k2 == Logged(k1, "LoadProject", project,
                     IF k1.gw.load_project = Null
                     THEN None ELSE k1.gw.load_project.project)
        k3 == [k2 EXCEPT !.gw.load_project = LoadProject(project)]
    IN  LoadProject_project_read(k3, is_giswater)

\* Giswater.init_plugin
init_plugin(k) == set_info_button([k EXCEPT !.gw.controller = "DaoController"])

\* Giswater.initGui
initGui(k, project, is_giswater, fault) ==
    project_read(init_plugin(k), project, is_giswater, fault)

\* the plugin now, and back
Plugin == [gw |-> giswater, iface |-> iface, log |-> <<>>, exc |-> ""]

CommitPlugin(k) ==
    /\ giswater' = k.gw
    /\ iface' = k.iface
    /\ log' = k.log
    /\ UNCHANGED <<tool_vars, twin, go2epa_vars, selector_vars, dlg_duplicate_psector>>

\* the fault that took effect in a handler's run
Effective(k, fault) ==
    IF \E i \in 1..Len(k.log) :
          \/ k.log[i].op = "log_warning"
          \/ k.log[i].op = "except" /\ k.log[i].body = fault
    THEN fault
    ELSE "none"

\* the event now delivered to the plugin; prev_op and prev_fault tell the
\* event before it
PluginEvent(op, project, remove_modules, fault) ==
    [op |-> op, project |-> project, remove_modules |-> remove_modules,
     fault |-> fault,
     prev_op |-> IF op = "unload" THEN event.op ELSE NoInput,
     prev_fault |-> IF op = "unload" /\ event.op = "unload"
                    THEN event.fault ELSE NoInput]

\* QGIS enables the plugin
InitGui(project, is_giswater, fault) ==
    /\ giswater.controller = None
    /\ LET k == initGui(Plugin, project, is_giswater, fault)
       IN  /\ CommitPlugin(k)
           /\ event' = PluginEvent("initGui", project, NoInput, Effective(k, fault))

\* signal projectRead
ProjectRead(project, is_giswater, fault) ==
    /\ giswater.controller # None
    /\ LET k == project_read(Plugin, project, is_giswater, fault)
       IN  /\ CommitPlugin(k)
           /\ event' = PluginEvent("project_read", project, NoInput, Effective(k, fault))

\* signal newProjectCreated
ProjectNew(fault) ==
    /\ giswater.controller # None
    /\ LET k == project_new(Plugin, fault)
       IN  /\ CommitPlugin(k)
           /\ event' = PluginEvent("project_new", NoInput, NoInput, Effective(k, fault))

\* QGIS disables or reloads the plugin, or a caller unloads it
Unload(remove_modules, fault) ==
    /\ giswater.controller # None
    /\ LET k == unload(Plugin, remove_modules, fault)
       IN  /\ CommitPlugin(k)
           /\ event' = PluginEvent("unload",
                                   NoInput,
                                   IF remove_modules THEN PyTrue ELSE PyFalse,
                                   Effective(k, fault))

PluginInit ==
    /\ MapToolInit
    /\ snapping_config = [enabled |-> FALSE, target |-> ArcTable]
    /\ project_layers = {ArcTable, NodeTable}
    /\ active_layer = None
    /\ show_help = FALSE
    /\ twin = Null
    /\ dlg_go2epa = Null
    /\ user_values = Null
    /\ platform = "win32"
    /\ selector_rpt = Null
    /\ project_type = "ws"
    /\ giswater = NewGiswater
    /\ iface \in {NewIface({}), NewIface({"dlg_search", "docker"})}
    /\ dlg_duplicate_psector = Null

PluginNext ==
    \/ \E project \in Projects, is_giswater \in BOOLEAN, fault \in Faults :
          InitGui(project, is_giswater, fault)
    \/ \E project \in Projects, is_giswater \in BOOLEAN, fault \in Faults :
          ProjectRead(project, is_giswater, fault)
    \/ \E fault \in Faults : ProjectNew(fault)
    \/ \E remove_modules \in BOOLEAN, fault \in Faults : Unload(remove_modules, fault)

SpecPlugin == PluginInit /\ [][PluginNext]_vars

\* C28: project_read calls unload(False) before it creates the new
\* LoadProject and reads the project with it; when the LoadProject is created
\* the plugin holds no other one, and when project_read is done load_project
\* is the manager of the project just read.
C28_UnloadBeforeLoad ==
    event.op \in {"project_read", "initGui"}
    => /\ Count(log, "unload") = 1
       /\ log[FirstCall(log, "unload")].arg = PyFalse
       /\ Count(log, "LoadProject") = 1
       /\ FirstCall(log, "unload") < FirstCall(log, "LoadProject")
       /\ FirstCall(log, "LoadProject") < FirstCall(log, "LoadProject.project_read")
       /\ log[FirstCall(log, "LoadProject")].body = None
       /\ giswater.load_project # Null
       /\ giswater.load_project.project = event.project

\* C28 witness: a second Giswater project has been read while the first
\* one's actions were registered; only the second one's are registered now
C28_Witness ==
    /\ event.op = "project_read"
    /\ event.project = "p2"
    /\ Called(log, "removePluginMenu")
    /\ giswater.load_project.project = "p2"
    /\ iface.plugin_menu = {"p2"}

\* what a handler's run took out of the host GUI
Removals(l) ==
    {i \in 1..Len(l) :
        l[i].op \in {"removePluginMenu", "removeToolBarIcon", "setVisible",
                     "removeDockWidget"}}

\* what a handler's run took out of the host GUI of a project's actions and
\* toolbars
ProjectRemovals(l) ==
    {i \in Removals(l) : l[i].arg \in Projects}

\* C29 as stated: after unload() load_project is None, whatever
\* remove_modules is and whichever step raised, and an unload() that follows
\* an unload() raises nothing and removes nothing from the host.
C29_SecondUnloadRemovesNothing ==
    [][/\ event'.op = "unload" => giswater'.load_project = Null
       /\ (event.op = "unload" /\ event'.op = "unload")
          => Removals(log') = {}]_vars

\* C29, amended: after unload() load_project is None, whatever remove_modules
\* is and whichever step raised, and an unload() that follows an unload()
\* raises nothing, removes no action of a project and hides no toolbar of a
\* project; what it can still remove is the info button.
C29_SecondUnloadRemovesNoProject ==
    [][/\ event'.op = "unload" => giswater'.load_project = Null
       /\ (event.op = "unload" /\ event'.op = "unload")
          => /\ ProjectRemovals(log') = {}
             /\ \A i \in Removals(log') : log'[i].arg = "info"
             /\ iface'.plugin_menu = iface.plugin_menu
             /\ iface'.toolbars = iface.toolbars]_vars

\* C29 witness: an unload() after an unload() whose removal of the project's
\* actions raised; the actions are still registered and no project is held
C29_Witness ==
    /\ event.op = "unload"
    /\ event.prev_op = "unload"
    /\ event.prev_fault = "removePluginMenu"
    /\ giswater.load_project = Null
    /\ iface.plugin_menu # {}

----------------------------------------------------------------------------
(* class GwPsectorDuplicate (src/core/actions/plan/psector_duplicate.py)  *)
(* The object is the record [dlg, log]: its dialog and the calls it made. *)

\* psector_id values of table plan_psector, as the combo's item data
PsectorIds == {"1", "2", "3", "4"}

\* texts the user can have in new_psector_name
PsectorNames == {"", "copy", "copy2"}

\* what gw_fct_psector_duplicate can answer through controller.get_json:
\* nothing, a body without info, a body whose info is empty, a body with
\* one of two info texts
PsectorResults ==
    {Null,
     [body |-> [data |-> [fields |-> "f"]]],
     [body |-> [data |-> [info |-> ""]]],
     [body |-> [data |-> [info |-> "Psector duplicated"]]],
     [body |-> [data |-> [info |-> "Psector duplicated, with warnings"]]]}

\* PsectorDuplicate(): the widgets of a new dialog, the combo on psector_id
PsectorDuplicate(psector_id) ==
    [open |-> FALSE, duplicate_psector |-> psector_id, new_psector_name |-> "",
     btn_accept_enabled |-> TRUE, windowTitle |-> "", tab_info |-> ""]

\* Python str() in an f-string: a text is itself, None is the text 'None',
\* which is how None is written here
Str(x) == x

\* one quoted value of the body after body.replace('""', 'null')
QuotedOrNull(x) == IF x = "" THEN "null" ELSE "\"" \o x \o "\""

\* ParentManage.create_body(feature=..., extras=...)
create_body_extras(feature, extras) ==
    "{\"feature\":{" \o feature \o "}, \"data\":{" \o extras \o "}}"

\* add_layer.populate_info_text: fills the info tab, tells whether it did
populate_info_text(q, data) ==
    [q |-> [q EXCEPT !.dlg.tab_info = data.info], ret |-> data.info # ""]

\* GwPsectorDuplicate.manage_duplicate_psector
manage_duplicate_psector(q, psector_id) ==
    Logged([q EXCEPT !.dlg = [PsectorDuplicate(Str(psector_id)) EXCEPT !.open = TRUE],
                     !.log = <<>>],
           "open_dialog", "psector_duplicate", "")

\* ParentManage.close_dialog
close_dialog(q) == [Logged(q, "close_dialog", "", "") EXCEPT !.dlg.open = FALSE]

\* a duplicate_psector that announces the duplicate before it has the result
Faulty_duplicate_emit_first(q, complet_result) ==
    LET id_psector == q.dlg.duplicate_psector
        new_psector_name == getWidgetText(q.dlg.new_psector_name, TRUE)
        feature == "\"type\":\"PSECTOR\""
        extras == "\"psector_id\":" \o QuotedOrNull(Str(id_psector))
                  \o ", \"new_psector_name\":" \o QuotedOrNull(Str(new_psector_name))
        body == create_body_extras(feature, extras)
        q1 == Logged([q EXCEPT !.log = <<>>], "get_json",
                     "gw_fct_psector_duplicate", body)
        q0 == Logged(q1, "emit", "is_duplicated", "")
    IN  IF complet_result = Null
        THEN Logged(q0, "show_message",
                    "Function gw_fct_psector_duplicate executed with no result", "3")
        ELSE LET data == complet_result.body.data
                 populated == IF "info" \in DOMAIN data
                              THEN populate_info_text(q0, data)
                              ELSE [q |-> q0, ret |-> FALSE]
                 change_tab == populated.ret
             IN  IF ~change_tab
                 THEN close_dialog(populated.q)
                 ELSE [populated.q EXCEPT !.dlg.btn_accept_enabled = FALSE,
                          !.dlg.windowTitle = "SUCCESS IN DUPLICATING PSECTOR"]

\* GwPsectorDuplicate.duplicate_psector; complet_result is what
\* controller.get_json hands back
duplicate_psector(q, complet_result) ==
    LET id_psector == q.dlg.duplicate_psector
        new_psector_name == getWidgetText(q.dlg.new_psector_name, TRUE)
        feature == "\"type\":\"PSECTOR\""
        extras == "\"psector_id\":" \o QuotedOrNull(Str(id_psector))
                  \o ", \"new_psector_name\":" \o QuotedOrNull(Str(new_psector_name))
        body == create_body_extras(feature, extras)
        q1 == Logged([q EXCEPT !.log = <<>>], "get_json",
                     "gw_fct_psector_duplicate", body)
    IN  IF complet_result = Null
        THEN Logged(q1, "show_message",
                    "Function gw_fct_psector_duplicate executed with no result", "3")
        ELSE LET data == complet_result.body.data
                 populated == IF "info" \in DOMAIN data
                              THEN populate_info_text(q1, data)
                              ELSE [q |-> q1, ret |-> FALSE]
                 change_tab == populated.ret
                 q2 == IF ~change_tab
                       THEN close_dialog(populated.q)
                       ELSE [populated.q EXCEPT !.dlg.btn_accept_enabled = FALSE,
                                !.dlg.windowTitle = "SUCCESS IN DUPLICATING PSECTOR"]
             IN  Logged(q2, "emit", "is_duplicated", "")

\* the GwPsectorDuplicate object now, and back
PsectorObject == [dlg |-> dlg_duplicate_psector, log |-> <<>>]

CommitPsector(q) ==
    /\ dlg_duplicate_psector' = q.dlg
    /\ log' = q.log
    /\ UNCHANGED <<tool_vars, twin, go2epa_vars, selector_vars, plugin_vars>>

\* the psector manager opens the dialog on a psector
OpenDuplicate(psector_id) ==
    /\ CommitPsector(manage_duplicate_psector(PsectorObject, psector_id))
    /\ event' = [op |-> "manage_duplicate_psector", complet_result |-> Null]

\* the user types the name of the new psector
TypePsectorName(name) ==
    /\ dlg_duplicate_psector # Null
    /\ dlg_duplicate_psector.open
    /\ name # dlg_duplicate_psector.new_psector_name
    /\ CommitPsector([PsectorObject EXCEPT !.dlg.new_psector_name = name])
    /\ event' = [op |-> "type_name", complet_result |-> Null]

\* the user presses Cancel
CancelDuplicate ==
    /\ dlg_duplicate_psector # Null
    /\ dlg_duplicate_psector.open
    /\ CommitPsector(close_dialog(PsectorObject))
    /\ event' = [op |-> "cancel", complet_result |-> Null]

\* the user presses Accept, which an enabled button of an open dialog takes
AcceptDuplicate(complet_result) ==
    /\ dlg_duplicate_psector # Null
    /\ dlg_duplicate_psector.open
    /\ dlg_duplicate_psector.btn_accept_enabled
    /\ CommitPsector(duplicate_psector(PsectorObject, complet_result))
    /\ event' = [op |-> "duplicate_psector", complet_result |-> complet_result]

PsectorInit ==
    /\ MapToolInit
    /\ snapping_config = [enabled |-> FALSE, target |-> ArcTable]
    /\ project_layers = {ArcTable, NodeTable}
    /\ active_layer = None
    /\ show_help = FALSE
    /\ twin = Null
    /\ FormsNotCreated

PsectorNext ==
    \/ \E psector_id \in PsectorIds : OpenDuplicate(psector_id)
    \/ \E name \in PsectorNames : TypePsectorName(name)
    \/ CancelDuplicate
    \/ \E complet_result \in PsectorResults : AcceptDuplicate(complet_result)

SpecPsector == PsectorInit /\ [][PsectorNext]_vars

\* the info tab was populated from that result
InfoPopulated(complet_result) ==
    /\ complet_result # Null
    /\ "info" \in DOMAIN complet_result.body.data
    /\ complet_result.body.data.info # ""

\* C30: duplicate_psector emits is_duplicated, once, exactly when
\* gw_fct_psector_duplicate handed back a truthy result; on a falsy result it
\* shows a message, leaves the dialog open and emits nothing; on success it
\* closes the dialog unless the info tab was populated, and then it leaves
\* the dialog open with the accept button disabled.
C30_EmitsIffResult ==
    event.op = "duplicate_psector"
    => /\ Called(log, "emit") <=> event.complet_result # Null
       /\ Count(log, "emit") <= 1
       /\ Count(log, "get_json") = 1
       /\ event.complet_result = Null
          => /\ Called(log, "show_message")
             /\ dlg_duplicate_psector.open
             /\ dlg_duplicate_psector.btn_accept_enabled
             /\ ~Called(log, "close_dialog")
       /\ (event.complet_result # Null /\ ~InfoPopulated(event.complet_result))
          => /\ ~dlg_duplicate_psector.open
             /\ dlg_duplicate_psector.btn_accept_enabled
       /\ InfoPopulated(event.complet_result)
          => /\ dlg_duplicate_psector.open
             /\ ~dlg_duplicate_psector.btn_accept_enabled
             /\ ~Called(log, "close_dialog")

\* C30 witness: a duplicate whose result populated the info tab: the signal
\* is emitted, the dialog stays open, its accept button is disabled
C30_Witness ==
    /\ event.op = "duplicate_psector"
    /\ InfoPopulated(event.complet_result)
    /\ Called(log, "emit")
    /\ dlg_duplicate_psector.open
    /\ ~dlg_duplicate_psector.btn_accept_enabled
    /\ dlg_duplicate_psector.tab_info = "Psector duplicated"

====
